---- MODULE Spec2Model ----
(***************************************************************************)
(* Decoding of IB FLEX activity statements (ib-flex): primitive decoders,  *)
(* code tables, record decoders, the Trades section classifier, the        *)
(* statement assembler and parse_activity_flex, as a state machine that    *)
(* builds an input document and then decodes it.                           *)
(*                                                                         *)
(* Texts whose characters matter (dates, decimals) are sequences of        *)
(* one-character strings; texts that are only compared (identifiers,       *)
(* codes, flags) are strings.  An XML attribute is <<>> when omitted and   *)
(* <<text>> when present; a decoded Option is <<>> (None) or <<v>> (Some). *)
(***************************************************************************)
EXTENDS Integers, Sequences, FiniteSets, TLC

VARIABLES doc, result, response, deriv, probe, code, input, output, client, threads

vars == <<doc, result, response, deriv, probe, code, input, output, client, threads>>

----------------------------------------------------------------------------
(* Result and Option values *)

Ok(v) == [ok |-> TRUE, val |-> <<v>>]

Err == [ok |-> FALSE, val |-> <<>>]

None == <<>>

Some(v) == <<v>>

IsSome(o) == Len(o) = 1

IsNone(o) == Len(o) = 0

Unwrap(o) == o[1]

Absent == <<>>

Attr(text) == <<text>>

----------------------------------------------------------------------------
(* Characters *)

Digits == {"0", "1", "2", "3", "4", "5", "6", "7", "8", "9"}

DigitVal(c) ==
    CASE c = "0" -> 0 [] c = "1" -> 1 [] c = "2" -> 2 [] c = "3" -> 3
      [] c = "4" -> 4 [] c = "5" -> 5 [] c = "6" -> 6 [] c = "7" -> 7
      [] c = "8" -> 8 [] c = "9" -> 9

EmptyText == <<>>

----------------------------------------------------------------------------
(* chrono::NaiveDate::parse_from_str, as parse_flex_date uses it.          *)
(* A numeric item takes at least one and at most `width` digits, greedily: *)
(* four for %Y, two for %m and %d.                                         *)

RECURSIVE ScanDigits(_, _, _, _)
ScanDigits(s, pos, width, acc) ==
    IF width > 0 /\ pos <= Len(s) /\ s[pos] \in Digits
    THEN ScanDigits(s, pos + 1, width - 1, acc * 10 + DigitVal(s[pos]))
    ELSE [val |-> acc, next |-> pos]

IsLeapYear(y) == (y % 4 = 0 /\ y % 100 # 0) \/ y % 400 = 0

DaysInMonth(y, m) ==
    IF m = 2 THEN (IF IsLeapYear(y) THEN 29 ELSE 28)
    ELSE IF m \in {4, 6, 9, 11} THEN 30 ELSE 31

from_ymd_opt(y, m, d) ==
    IF m >= 1 /\ m <= 12 /\ d >= 1 /\ d <= DaysInMonth(y, m)
    THEN Ok([year |-> y, month |-> m, day |-> d])
    ELSE Err

\* the items of the two format strings of parse_flex_date
FormatIso == <<"Y", "-", "m", "-", "d">>

FormatCompact == <<"Y", "m", "d">>

\* %Y takes up to four digits, %m and %d up to two
ItemWidth(item) == IF item = "Y" THEN 4 ELSE 2

\* the format items matched against the text from left to right: a literal
\* must be the next character, a numeric item takes at least one digit, and
\* the text must end with the last item
RECURSIVE ScanItems(_, _, _, _)
RECURSIVE ScanField(_, _, _, _, _)
ScanItems(s, pos, items, parsed) ==
    IF items = <<>> THEN (IF pos = Len(s) + 1 THEN Ok(parsed) ELSE Err)
    ELSE IF Head(items) = "-"
         THEN IF pos <= Len(s) /\ s[pos] = "-"
              THEN ScanItems(s, pos + 1, Tail(items), parsed)
              ELSE Err
    ELSE ScanField(s, pos, items, parsed, ScanDigits(s, pos, ItemWidth(Head(items)), 0))

ScanField(s, pos, items, parsed, r) ==
    IF r.next = pos THEN Err
    ELSE ScanItems(s, r.next, Tail(items), Append(parsed, r.val))

\* the parsed year, month and day resolved to a calendar date
ToNaiveDate(r) ==
    IF r.ok THEN from_ymd_opt(r.val[1][1], r.val[1][2], r.val[1][3]) ELSE Err

\* NaiveDate::parse_from_str(s, fmt)
parse_from_str(s, fmt) == ToNaiveDate(ScanItems(s, 1, fmt, <<>>))

\* the first result when it is Ok, the second otherwise
OrElse(r, alt) == IF r.ok THEN r ELSE alt

\* parse_flex_date without the second attempt: the ISO form only
parse_flex_date_iso_only(s) == parse_from_str(s, FormatIso)

parse_flex_date(s) ==
    OrElse(parse_from_str(s, FormatIso), parse_from_str(s, FormatCompact))

DateLeq(a, b) ==
    \/ a.year < b.year
    \/ a.year = b.year /\ a.month < b.month
    \/ a.year = b.year /\ a.month = b.month /\ a.day <= b.day

----------------------------------------------------------------------------
(* rust_decimal's FromStr for the texts of the model: an optional '-', then *)
(* digits with at most one '.', at least one digit.  The value is a sign,   *)
(* an integer mantissa (its decimal digits, no leading zero) and the scale  *)
(* of the text.                                                             *)

\* the digits of an integer: leading zeros do not change it
RECURSIVE StripLeadingZeros(_)
StripLeadingZeros(ds) ==
    IF Len(ds) > 1 /\ Head(ds) = "0" THEN StripLeadingZeros(Tail(ds)) ELSE ds

RECURSIVE ScanDecimal(_, _, _, _, _)
ScanDecimal(s, pos, mant, scale, seenPoint) ==
    IF pos > Len(s) THEN [ok |-> TRUE, mant |-> StripLeadingZeros(mant), scale |-> scale]
    ELSE IF s[pos] \in Digits
         THEN ScanDecimal(s, pos + 1, Append(mant, s[pos]),
                          IF seenPoint THEN scale + 1 ELSE scale, seenPoint)
    ELSE IF s[pos] = "." /\ ~seenPoint
         THEN ScanDecimal(s, pos + 1, mant, scale, TRUE)
    ELSE [ok |-> FALSE, mant |-> <<"0">>, scale |-> 0]

HasDigit(s) == \E i \in 1..Len(s) : s[i] \in Digits

IsNegative(s) == Len(s) > 0 /\ s[1] = "-"

\* a mantissa kept as a binary float of 53 bits: beyond 15 digits the
\* trailing digits are not the text's
DecimalValue_via_float(neg, body) ==
    IF body.ok
    THEN Ok([neg |-> neg /\ body.mant # <<"0">>,
             mant |-> IF Len(body.mant) > 15
                      THEN SubSeq(body.mant, 1, 15) \o
                           [i \in 1..(Len(body.mant) - 15) |-> "0"]
                      ELSE body.mant,
             scale |-> body.scale])
    ELSE Err

DecimalValue(neg, body) ==
    IF body.ok
    THEN Ok([neg |-> neg /\ body.mant # <<"0">>, mant |-> body.mant, scale |-> body.scale])
    ELSE Err

Decimal_from_str(s) ==
    IF HasDigit(s)
    THEN DecimalValue(IsNegative(s),
                      ScanDecimal(s, IF IsNegative(s) THEN 2 ELSE 1, <<>>, 0, FALSE))
    ELSE Err

\* the mantissa padded with zeros on the left to `width` digits
RECURSIVE PadZeros(_, _)
PadZeros(ds, width) == IF Len(ds) >= width THEN ds ELSE PadZeros(<<"0">> \o ds, width)

\* the digits with the decimal point `scale` places from the right
WithPoint(ds, scale) ==
    IF scale = 0 THEN ds
    ELSE SubSeq(ds, 1, Len(ds) - scale) \o <<".">> \o SubSeq(ds, Len(ds) - scale + 1, Len(ds))

\* Decimal's Display, as to_string() uses it
Decimal_to_string(d) ==
    (IF d.neg THEN <<"-">> ELSE <<>>) \o WithPoint(PadZeros(d.mant, d.scale + 1), d.scale)

----------------------------------------------------------------------------
(* Primitive decoders of parsers/xml_utils.rs.  `a` is an attribute:       *)
(* Absent or Attr(text).                                                    *)

\* Result::map(Some)
MapSome(r) == IF r.ok THEN Ok(Some(r.val[1])) ELSE Err

deserialize_flex_date(a) ==
    IF a = Absent THEN Err ELSE parse_flex_date(a[1])

\* deserialize_optional_decimal turning an unparsable text into None
deserialize_optional_decimal_lenient(a) ==
    IF a = Absent \/ a[1] = EmptyText THEN Ok(None)
    ELSE Ok(Decimal_from_str(a[1]).val)

deserialize_optional_decimal(a) ==
    IF a = Absent \/ a[1] = EmptyText THEN Ok(None)
    ELSE MapSome(Decimal_from_str(a[1]))

deserialize_optional_date(a) ==
    IF a = Absent \/ a[1] = EmptyText THEN Ok(None)
    ELSE MapSome(parse_flex_date(a[1]))

\* deserialize_optional_string handing the empty text on as a value
deserialize_optional_string_keep_empty(a) ==
    IF a = Absent THEN Ok(None) ELSE Ok(Some(a[1]))

deserialize_optional_string(a) ==
    IF a = Absent \/ a[1] = "" THEN Ok(None) ELSE Ok(Some(a[1]))

\* deserialize_optional_bool reading an unrecognized flag as no value
deserialize_optional_bool_lenient(a) ==
    IF a = Absent \/ a[1] = "" THEN Ok(None)
    ELSE IF a[1] \in {"Y", "y"} THEN Ok(Some(TRUE))
    ELSE IF a[1] \in {"N", "n"} THEN Ok(Some(FALSE))
    ELSE Ok(None)

deserialize_optional_bool(a) ==
    IF a = Absent \/ a[1] = "" THEN Ok(None)
    ELSE IF a[1] \in {"Y", "y"} THEN Ok(Some(TRUE))
    ELSE IF a[1] \in {"N", "n"} THEN Ok(Some(FALSE))
    ELSE Err

\* a mandatory String attribute given #[serde(default)]
deserialize_string_or_default(a) ==
    IF a = Absent THEN Ok("") ELSE Ok(a[1])

\* a mandatory String attribute: the text itself, an error when omitted
deserialize_string(a) ==
    IF a = Absent THEN Err ELSE Ok(a[1])

\* a mandatory Decimal attribute
deserialize_decimal(a) ==
    IF a = Absent THEN Err ELSE Decimal_from_str(a[1])

----------------------------------------------------------------------------
(* Code tables of types/common.rs: the text of each variant.  Every table  *)
(* ends in an Unknown variant marked #[serde(other)].                       *)

AssetCategoryVocab ==
    ("STK" :> "Stock") @@
    ("OPT" :> "Option") @@
    ("FUT" :> "Future") @@
    ("FOP" :> "FutureOption") @@
    ("CASH" :> "Cash") @@
    ("BOND" :> "Bond") @@
    ("BILL" :> "Bill") @@
    ("CMDTY" :> "Commodity") @@
    ("CFD" :> "Cfd") @@
    ("FXCFD" :> "ForexCfd") @@
    ("WAR" :> "Warrant") @@
    ("FUND" :> "Fund") @@
    ("IOPT" :> "StructuredProduct") @@
    ("BAG" :> "Bag") @@
    ("CRYPTO" :> "Cryptocurrency") @@
    ("METAL" :> "Metal") @@
    ("EFP" :> "ExchangeForPhysical") @@
    ("EC" :> "EventContract") @@
    ("IND" :> "Index")

BuySellVocab ==
    ("BUY" :> "Buy") @@
    ("SELL" :> "Sell") @@
    ("BUY (Ca.)" :> "CancelBuy") @@
    ("SELL (Ca.)" :> "CancelSell")

OpenCloseVocab ==
    ("O" :> "Open") @@
    ("C" :> "Close") @@
    ("C;O" :> "CloseOpen")

OrderTypeVocab ==
    ("MKT" :> "Market") @@
    ("LMT" :> "Limit") @@
    ("STP" :> "Stop") @@
    ("STP LMT" :> "StopLimit") @@
    ("MOC" :> "MarketOnClose") @@
    ("LOC" :> "LimitOnClose") @@
    ("MIT" :> "MarketIfTouched") @@
    ("LIT" :> "LimitIfTouched") @@
    ("TRAIL" :> "TrailingStop") @@
    ("TRAIL LMT" :> "TrailingLimit") @@
    ("MIDPX" :> "MidPrice") @@
    ("REL" :> "Relative") @@
    ("MULTIPLE" :> "Multiple")

PutCallVocab ==
    ("P" :> "Put") @@
    ("C" :> "Call")

LongShortVocab ==
    ("Long" :> "Long") @@
    ("Short" :> "Short")

TradeTypeVocab ==
    ("ExchTrade" :> "ExchTrade") @@
    ("BookTrade" :> "BookTrade") @@
    ("DvpTrade" :> "DvpTrade") @@
    ("FracShare" :> "FracShare") @@
    ("FracShareCancel" :> "FracShareCancel") @@
    ("Adjustment" :> "Adjustment") @@
    ("TradeCorrect" :> "TradeCorrect") @@
    ("TradeCancel" :> "TradeCancel") @@
    ("IBKRTrade" :> "IBKRTrade")

CashTransactionTypeVocab ==
    ("Deposits & Withdrawals" :> "DepositsWithdrawals") @@
    ("Dividends" :> "Dividends") @@
    ("WithholdingTax" :> "WithholdingTax") @@
    ("Broker Interest Paid" :> "BrokerInterestPaid") @@
    ("Broker Interest Received" :> "BrokerInterestReceived") @@
    ("Bond Interest Received" :> "BondInterestReceived") @@
    ("Bond Interest Paid" :> "BondInterestPaid") @@
    ("Bond Interest" :> "BondInterest") @@
    ("Payment In Lieu Of Dividends" :> "PaymentInLieuOfDividends") @@
    ("Other Fees" :> "OtherFees") @@
    ("Commission Adjustments" :> "CommissionAdjustments") @@
    ("Advisor Fees" :> "AdvisorFees") @@
    ("Cash Receipts" :> "CashReceipts") @@
    ("Fees" :> "Fees")

CorporateActionTypeVocab ==
    ("Stock Split" :> "StockSplit") @@
    ("Forward Split (Issue)" :> "ForwardSplitIssue") @@
    ("Forward Split" :> "ForwardSplit") @@
    ("Reverse Split" :> "ReverseSplit") @@
    ("Merger" :> "Merger") @@
    ("Spinoff" :> "Spinoff") @@
    ("Contract Spinoff" :> "ContractSpinoff") @@
    ("Stock Dividend" :> "StockDividend") @@
    ("Cash Dividend" :> "CashDividend") @@
    ("Choice Dividend" :> "ChoiceDividend") @@
    ("Choice Dividend (Delivery)" :> "ChoiceDivDelivery") @@
    ("Choice Dividend (Issue)" :> "ChoiceDivIssue") @@
    ("Dividend Rights Issue" :> "DivRightsIssue") @@
    ("Expired Dividend Right" :> "ExpiredDivRight") @@
    ("Delisted" :> "Delisted") @@
    ("Delist (Worthless)" :> "DelistWorthless") @@
    ("Name Change" :> "NameChange") @@
    ("Symbol Change" :> "SymbolChange") @@
    ("Issue Change" :> "IssueChange") @@
    ("Bond Conversion" :> "BondConversion") @@
    ("Bond Maturity" :> "BondMaturity") @@
    ("T-Bill Maturity" :> "TBillMaturity") @@
    ("Convertible Issue" :> "ConvertibleIssue") @@
    ("Coupon Payment" :> "CouponPayment") @@
    ("Contract Consolidation" :> "ContractConsolidation") @@
    ("Contract Split" :> "ContractSplit") @@
    ("CFD Termination" :> "CfdTermination") @@
    ("Fee Allocation" :> "FeeAllocation") @@
    ("Rights Issue" :> "RightsIssue") @@
    ("Subscribe Rights" :> "SubscribeRights") @@
    ("Tender" :> "Tender") @@
    ("Tender (Issue)" :> "TenderIssue") @@
    ("Proxy Vote" :> "ProxyVote") @@
    ("Generic Voluntary" :> "GenericVoluntary") @@
    ("Asset Purchase" :> "AssetPurchase") @@
    ("Purchase (Issue)" :> "PurchaseIssue")

OptionActionVocab ==
    ("Assignment" :> "Assignment") @@
    ("Exercise" :> "Exercise") @@
    ("Expiration" :> "Expiration") @@
    ("Expire" :> "Expire") @@
    ("Cash Settlement" :> "CashSettlement") @@
    ("Buy" :> "Buy") @@
    ("Sell" :> "Sell")

TransferTypeVocab ==
    ("ACATS" :> "ACATS") @@
    ("ATON" :> "ATON") @@
    ("FOP" :> "FOP") @@
    ("INTERNAL" :> "INTERNAL") @@
    ("DVP" :> "DVP") @@
    ("DRS" :> "DRS")

TransactionCodeVocab ==
    ("A" :> "Assignment") @@
    ("Adj" :> "Adjustment") @@
    ("Al" :> "Allocation") @@
    ("Ae" :> "AutoExercise") @@
    ("Af" :> "AutoFx") @@
    ("Aw" :> "AwayTrade") @@
    ("B" :> "BuyIn") @@
    ("Bo" :> "BorrowFee") @@
    ("Ca" :> "Cancelled") @@
    ("C" :> "Closing") @@
    ("Cd" :> "CashDelivery") @@
    ("Cp" :> "ComplexPosition") @@
    ("Cr" :> "Correction") @@
    ("Cs" :> "Crossing") @@
    ("D" :> "DualAgent") @@
    ("Et" :> "Etf") @@
    ("Ex" :> "Expired") @@
    ("O" :> "Exercise") @@
    ("G" :> "Guaranteed") @@
    ("Hc" :> "HighestCost") @@
    ("Hi" :> "HfInvestment") @@
    ("Hr" :> "HfRedemption") @@
    ("I" :> "InternalTransfer") @@
    ("Ia" :> "Affiliate") @@
    ("Iv" :> "Investor") @@
    ("L" :> "MarginLiquidation") @@
    ("Li" :> "Lifo") @@
    ("Ln" :> "Loan") @@
    ("Lt" :> "LongTermGain") @@
    ("M" :> "ManualEntry") @@
    ("Ml" :> "MaxLoss") @@
    ("Mn" :> "MinLongTermGain") @@
    ("Ms" :> "MaxShortTermGain") @@
    ("Mi" :> "MinShortTermGain") @@
    ("Mx" :> "ManualExercise") @@
    ("P" :> "Opening") @@
    ("Pt" :> "Partial") @@
    ("Fr" :> "FracRiskless") @@
    ("Fp" :> "FracPrincipal") @@
    ("Pi" :> "PriceImprovement") @@
    ("Pa" :> "PostAccrual") @@
    ("Pr" :> "Principal") @@
    ("Re" :> "Reinvestment") @@
    ("Rd" :> "Redemption") @@
    ("R" :> "Reopen") @@
    ("Rv" :> "Reverse") @@
    ("Ri" :> "Reimbursement") @@
    ("Si" :> "SolicitedIb") @@
    ("Sp" :> "SpecificLot") @@
    ("So" :> "SolicitedOther") @@
    ("Ss" :> "ShortSettlement") @@
    ("St" :> "ShortTermGain") @@
    ("Sy" :> "StockYield") @@
    ("T" :> "Transfer") @@
    ("W" :> "WashSale")

ToFromVocab ==
    ("To" :> "To") @@
    ("From" :> "From")

InOutVocab ==
    ("IN" :> "IN") @@
    ("OUT" :> "OUT")

DeliveredReceivedVocab ==
    ("Delivered" :> "Delivered") @@
    ("Received" :> "Received")

LevelOfDetailVocab ==
    ("Summary" :> "Summary") @@
    ("Detail" :> "Detail") @@
    ("Execution" :> "Execution") @@
    ("Lot" :> "Lot")

SecurityIdTypeVocab ==
    ("CUSIP" :> "Cusip") @@
    ("ISIN" :> "Isin") @@
    ("FIGI" :> "Figi") @@
    ("SEDOL" :> "Sedol")

SubCategoryVocab ==
    ("ETF" :> "Etf") @@
    ("ADR" :> "Adr") @@
    ("REIT" :> "Reit") @@
    ("Preferred" :> "Preferred") @@
    ("Common" :> "Common") @@
    ("DR" :> "DepositaryReceipt") @@
    ("GDR" :> "Gdr") @@
    ("LP" :> "LimitedPartnership") @@
    ("MLP" :> "MasterLimitedPartnership") @@
    ("Right" :> "Right") @@
    ("Unit" :> "Unit") @@
    ("WI" :> "WhenIssued") @@
    ("Tracking" :> "Tracking") @@
    ("CEF" :> "ClosedEndFund")

CodeTableNames ==
    {"AssetCategory", "BuySell", "OpenClose", "OrderType", "PutCall", "LongShort", "TradeType", "CashTransactionType", "CorporateActionType", "OptionAction", "TransferType", "TransactionCode", "ToFrom", "InOut", "DeliveredReceived", "LevelOfDetail", "SecurityIdType", "SubCategory"}

CodeTable(table) ==
    CASE table = "AssetCategory" -> AssetCategoryVocab
      [] table = "BuySell" -> BuySellVocab
      [] table = "OpenClose" -> OpenCloseVocab
      [] table = "OrderType" -> OrderTypeVocab
      [] table = "PutCall" -> PutCallVocab
      [] table = "LongShort" -> LongShortVocab
      [] table = "TradeType" -> TradeTypeVocab
      [] table = "CashTransactionType" -> CashTransactionTypeVocab
      [] table = "CorporateActionType" -> CorporateActionTypeVocab
      [] table = "OptionAction" -> OptionActionVocab
      [] table = "TransferType" -> TransferTypeVocab
      [] table = "TransactionCode" -> TransactionCodeVocab
      [] table = "ToFrom" -> ToFromVocab
      [] table = "InOut" -> InOutVocab
      [] table = "DeliveredReceived" -> DeliveredReceivedVocab
      [] table = "LevelOfDetail" -> LevelOfDetailVocab
      [] table = "SecurityIdType" -> SecurityIdTypeVocab
      [] table = "SubCategory" -> SubCategoryVocab

\* a unit-variant enum without #[serde(other)]: an unlisted text is an error
DecodeEnum_strict(table, text) ==
    IF text \in DOMAIN CodeTable(table)
    THEN Ok(CodeTable(table)[text])
    ELSE Err

\* a unit-variant enum with #[serde(other)] Unknown, decoded from a text
DecodeEnum(table, text) ==
    IF text \in DOMAIN CodeTable(table)
    THEN Ok(CodeTable(table)[text])
    ELSE Ok("Unknown")

\* a mandatory code attribute
deserialize_enum(table, a) ==
    IF a = Absent THEN Err ELSE DecodeEnum(table, a[1])

\* Option<Enum> with #[serde(default)]
deserialize_option_enum(table, a) ==
    IF a = Absent THEN Ok(None)
    ELSE MapSome(DecodeEnum(table, a[1]))

\* Option<String> with #[serde(default)]
deserialize_option_string(a) ==
    IF a = Absent THEN Ok(None) ELSE Ok(Some(a[1]))

----------------------------------------------------------------------------
(* Record decoders (serde derive): every modeled attribute is decoded, the *)
(* record is an error when any of them is.                                  *)

AllOk(rs) == \A i \in DOMAIN rs : rs[i].ok

V(r) == r.val[1]

\* the decoded members (the fields of a record, the elements of a Vec in
\* document order) when every one decoded, the error otherwise
Collect(rs) == IF AllOk(rs) THEN Ok([k \in DOMAIN rs |-> V(rs[k])]) ELSE Err

\* a text as one string, from its characters
RECURSIVE Concat(_)
Concat(chars) == IF chars = <<>> THEN "" ELSE Head(chars) \o Concat(Tail(chars))

\* str::split(sep): the pieces between separators, empty pieces included
RECURSIVE Split(_, _, _, _)
Split(s, sep, piece, pieces) ==
    IF s = <<>> THEN Append(pieces, Concat(piece))
    ELSE IF Head(s) = sep THEN Split(Tail(s), sep, <<>>, Append(pieces, Concat(piece)))
    ELSE Split(Tail(s), sep, Append(piece, Head(s)), pieces)

\* .filter(|code| !code.is_empty())
NonEmptyPieces(pieces) == SelectSeq(pieces, LAMBDA t : t # "")

\* .map(|code| serde_plain::from_str::<TransactionCode>(code)).collect()
DecodeTransactionCodes(tokens) ==
    Collect([i \in 1..Len(tokens) |-> DecodeEnum("TransactionCode", tokens[i])])

\* deserialize_transaction_codes skipping the tokens the table does not list
deserialize_transaction_codes_skip_unlisted(a) ==
    IF a = Absent \/ a[1] = EmptyText THEN Ok(None)
    ELSE MapSome(DecodeTransactionCodes(
             SelectSeq(NonEmptyPieces(Split(a[1], ";", <<>>, <<>>)),
                       LAMBDA t : t \in DOMAIN TransactionCodeVocab)))

\* deserialize_transaction_codes without the filter on empty tokens
deserialize_transaction_codes_keep_empty(a) ==
    IF a = Absent \/ a[1] = EmptyText THEN Ok(None)
    ELSE MapSome(DecodeTransactionCodes(Split(a[1], ";", <<>>, <<>>)))

deserialize_transaction_codes(a) ==
    IF a = Absent \/ a[1] = EmptyText THEN Ok(None)
    ELSE MapSome(DecodeTransactionCodes(NonEmptyPieces(Split(a[1], ";", <<>>, <<>>))))

NoAttrs ==
    [accountId |-> Absent, conid |-> Absent, symbol |-> Absent,
     assetCategory |-> Absent, currency |-> Absent, strike |-> Absent,
     expiry |-> Absent, putCall |-> Absent, underlyingConid |-> Absent,
     underlyingSymbol |-> Absent, tradeDate |-> Absent, buySell |-> Absent,
     quantity |-> Absent, tradePrice |-> Absent, isAPIOrder |-> Absent,
     position |-> Absent, markPrice |-> Absent, positionValue |-> Absent,
     reportDate |-> Absent, type |-> Absent, fromDate |-> Absent,
     toDate |-> Absent, whenGenerated |-> Absent, notes |-> Absent,
     price |-> Absent, amount |-> Absent]

Trade_deserialize(a) ==
    Collect([account_id        |-> deserialize_string(a.accountId),
             conid             |-> deserialize_string(a.conid),
             symbol            |-> deserialize_string(a.symbol),
             asset_category    |-> deserialize_enum("AssetCategory", a.assetCategory),
             strike            |-> deserialize_optional_decimal(a.strike),
             expiry            |-> deserialize_optional_date(a.expiry),
             put_call          |-> deserialize_option_enum("PutCall", a.putCall),
             underlying_conid  |-> deserialize_option_string(a.underlyingConid),
             underlying_symbol |-> deserialize_option_string(a.underlyingSymbol),
             trade_date        |-> deserialize_optional_date(a.tradeDate),
             buy_sell          |-> deserialize_option_enum("BuySell", a.buySell),
             quantity          |-> deserialize_optional_decimal(a.quantity),
             trade_price       |-> deserialize_optional_decimal(a.tradePrice),
             currency          |-> deserialize_string(a.currency),
             notes             |-> deserialize_transaction_codes(a.notes),
             is_api_order      |-> deserialize_optional_bool(a.isAPIOrder)])

Position_deserialize(a) ==
    Collect([account_id        |-> deserialize_string(a.accountId),
             conid             |-> deserialize_string(a.conid),
             symbol            |-> deserialize_string(a.symbol),
             asset_category    |-> deserialize_enum("AssetCategory", a.assetCategory),
             strike            |-> deserialize_optional_decimal(a.strike),
             expiry            |-> deserialize_optional_date(a.expiry),
             put_call          |-> deserialize_option_enum("PutCall", a.putCall),
             underlying_conid  |-> deserialize_option_string(a.underlyingConid),
             underlying_symbol |-> deserialize_option_string(a.underlyingSymbol),
             quantity          |-> deserialize_decimal(a.position),
             mark_price        |-> deserialize_decimal(a.markPrice),
             position_value    |-> deserialize_decimal(a.positionValue),
             currency          |-> deserialize_string(a.currency),
             report_date       |-> deserialize_flex_date(a.reportDate)])

CorporateAction_deserialize(a) ==
    Collect([account_id     |-> deserialize_string(a.accountId),
             action_type    |-> deserialize_option_enum("CorporateActionType", a.type),
             report_date    |-> deserialize_flex_date(a.reportDate),
             conid          |-> deserialize_string(a.conid),
             symbol         |-> deserialize_string(a.symbol),
             asset_category |-> deserialize_option_enum("AssetCategory", a.assetCategory),
             quantity       |-> deserialize_optional_decimal(a.quantity)])

CashTransaction_deserialize(a) ==
    Collect([account_id       |-> deserialize_string(a.accountId),
             transaction_type |-> deserialize_option_enum("CashTransactionType", a.type),
             amount           |-> deserialize_decimal(a.amount),
             currency         |-> deserialize_string(a.currency),
             date             |-> deserialize_optional_date(a.reportDate)])

\* extended::AccountInformation: accountId is its one mandatory attribute
AccountInformation_deserialize(a) ==
    Collect([account_id |-> deserialize_string(a.accountId),
             currency   |-> deserialize_option_string(a.currency)])

----------------------------------------------------------------------------
(* The Trades section.  An element is [tag, attrs].                        *)

TradesItemTags == {"Trade", "Order", "SymbolSummary", "AssetSummary", "WashSale", "Lot"}

\* enum TradesItem: the variant is the element's tag, its content a Trade
TradesItem_variant(tag, t) ==
    IF t.ok THEN Ok([variant |-> tag, trade |-> t.val[1]]) ELSE Err

\* enum TradesItem with a catch-all #[serde(other)] unit variant
TradesItem_deserialize_other(e) ==
    IF e.tag \notin TradesItemTags THEN Ok([variant |-> "Other", trade |-> <<>>])
    ELSE TradesItem_variant(e.tag, Trade_deserialize(e.attrs))

TradesItem_deserialize(e) ==
    IF e.tag \notin TradesItemTags THEN Err
    ELSE TradesItem_variant(e.tag, Trade_deserialize(e.attrs))

\* RouteItems with the WashSale arm pushing onto the executions
RECURSIVE RouteItems_wash_sales_as_trades(_, _, _)
RouteItems_wash_sales_as_trades(items, trades, wash_sales) ==
    IF items = <<>> THEN [items |-> trades, wash_sales |-> wash_sales]
    ELSE LET item == Head(items)
         IN  IF item.variant \in {"Trade", "WashSale"}
             THEN RouteItems_wash_sales_as_trades(Tail(items), Append(trades, item.trade),
                                                  wash_sales)
             ELSE RouteItems_wash_sales_as_trades(Tail(items), trades, wash_sales)

\* RouteItems with Order elements kept as executions
RECURSIVE RouteItems_orders_kept(_, _, _)
RouteItems_orders_kept(items, trades, wash_sales) ==
    IF items = <<>> THEN [items |-> trades, wash_sales |-> wash_sales]
    ELSE LET item == Head(items)
         IN  CASE item.variant \in {"Trade", "Order"} ->
                    RouteItems_orders_kept(Tail(items), Append(trades, item.trade), wash_sales)
               [] item.variant = "WashSale" ->
                    RouteItems_orders_kept(Tail(items), trades, Append(wash_sales, item.trade))
               [] OTHER ->
                    RouteItems_orders_kept(Tail(items), trades, wash_sales)

\* the loop of TradesWrapper::deserialize over raw.items
RECURSIVE RouteItems(_, _, _)
RouteItems(items, trades, wash_sales) ==
    IF items = <<>> THEN [items |-> trades, wash_sales |-> wash_sales]
    ELSE LET item == Head(items)
         IN  CASE item.variant = "Trade" ->
                    RouteItems(Tail(items), Append(trades, item.trade), wash_sales)
               [] item.variant = "WashSale" ->
                    RouteItems(Tail(items), trades, Append(wash_sales, item.trade))
               [] OTHER ->
                    RouteItems(Tail(items), trades, wash_sales)

\* the wrapper around the routed items: RawTradesWrapper::deserialize(..)?
TradesWrapper_route(raw) ==
    IF raw.ok THEN Ok(RouteItems(V(raw), <<>>, <<>>)) ELSE Err

TradesWrapper_deserialize(children) ==
    TradesWrapper_route(Collect([i \in 1..Len(children) |-> TradesItem_deserialize(children[i])]))

\* a wrapper whose one member is the Vec of its child elements
ItemsWrapper(raw) == IF raw.ok THEN Ok([items |-> V(raw)]) ELSE Err

PositionsWrapper_deserialize(children) ==
    ItemsWrapper(Collect([i \in 1..Len(children) |-> Position_deserialize(children[i].attrs)]))

CorporateActionsWrapper_deserialize(children) ==
    ItemsWrapper(Collect([i \in 1..Len(children) |->
                              CorporateAction_deserialize(children[i].attrs)]))

CashTransactionsWrapper_deserialize(children) ==
    ItemsWrapper(Collect([i \in 1..Len(children) |->
                              CashTransaction_deserialize(children[i].attrs)]))

\* #[derive(Default)] of TradesWrapper
TradesWrapper_default == [items |-> <<>>, wash_sales |-> <<>>]

\* #[derive(Default)] of a wrapper whose one member is a Vec
ItemsWrapper_default == [items |-> <<>>]

----------------------------------------------------------------------------
(* The statement assembler.  A statement element is                        *)
(* [attrs, trades, positions, corporate_actions, present, others]: trades, *)
(* positions and corporate_actions are the children of its Trades,         *)
(* OpenPositions and CorporateActions sections, present the tags of those  *)
(* three whose element occurs in the statement, others its remaining child *)
(* elements [tag, attrs, children] in document order, each tag at most     *)
(* once.                                                                   *)

\* the fields of ActivityFlexStatement that hold an IgnoredSection
IgnoredSectionTags ==
    {"DepositsOnHold", "FxPositions", "NetStockPositions", "ComplexPositions",
     "CFDCharges", "CommissionCredits", "FdicInsuredDepositsByBank",
     "HKIPOOpenSubscriptions", "HKIPOSubscriptionActivity", "IBGNoteTransactions",
     "IncentiveCouponAccrualDetails", "MutualFundDividendDetails",
     "NetStockPositionSummary", "PendingExcercises", "RoutingCommissions",
     "SLBCollaterals", "SLBOpenContracts", "SoftDollars", "StockGrantActivities",
     "TransactionTaxes", "UnbookedTrades"}

\* the child elements of a statement that the model decodes into a field
ModeledSectionTags ==
    {"Trades", "OpenPositions", "CorporateActions", "CashTransactions",
     "AccountInformation"}

\* IgnoredSection decoded as the unit struct it is: only an empty element
IgnoredSection_deserialize_unit(e) ==
    IF e.children = <<>> /\ e.attrs = NoAttrs THEN Ok("IgnoredSection") ELSE Err

\* IgnoredAny::deserialize(deserializer)?; Ok(IgnoredSection)
IgnoredSection_deserialize(e) == Ok("IgnoredSection")

\* a child element no field is named after: the derived visitor reads it
\* as IgnoredAny
IgnoredAny_deserialize(e) == Ok("IgnoredAny")

HasChild(st, tag) == \E i \in DOMAIN st.others : st.others[i].tag = tag

ChildOf(st, tag) == st.others[CHOOSE i \in DOMAIN st.others : st.others[i].tag = tag]

\* what the statement visitor does with a child element that is not one
\* of its modeled sections
OtherChild_deserialize(e) ==
    CASE e.tag \in ModeledSectionTags -> Ok("Modeled")
      [] e.tag \in IgnoredSectionTags -> IgnoredSection_deserialize(e)
      [] OTHER -> IgnoredAny_deserialize(e)

Discarded(r) == IF r.ok THEN Ok("IgnoredSection") ELSE Err

\* the Trades field always left at its default
TradesSection_skipped(st) == Ok(TradesWrapper_default)

\* #[serde(rename = "Trades", default)] trades: TradesWrapper
TradesSection(st) ==
    IF "Trades" \in st.present THEN TradesWrapper_deserialize(st.trades)
    ELSE Ok(TradesWrapper_default)

PositionsSection(st) ==
    IF "OpenPositions" \in st.present THEN PositionsWrapper_deserialize(st.positions)
    ELSE Ok(ItemsWrapper_default)

CorporateActionsSection(st) ==
    IF "CorporateActions" \in st.present
    THEN CorporateActionsWrapper_deserialize(st.corporate_actions)
    ELSE Ok(ItemsWrapper_default)

CashTransactionsSection(st) ==
    IF HasChild(st, "CashTransactions")
    THEN CashTransactionsWrapper_deserialize(ChildOf(st, "CashTransactions").children)
    ELSE Ok(ItemsWrapper_default)

\* #[serde(rename = "AccountInformation", default)]
\* account_information: Option<AccountInformation>
AccountInformationSection(st) ==
    IF HasChild(st, "AccountInformation")
    THEN MapSome(AccountInformation_deserialize(ChildOf(st, "AccountInformation").attrs))
    ELSE Ok(None)

ActivityFlexStatement_deserialize(st) ==
    Collect([account_id        |-> deserialize_string(st.attrs.accountId),
             from_date         |-> deserialize_flex_date(st.attrs.fromDate),
             to_date           |-> deserialize_flex_date(st.attrs.toDate),
             when_generated    |-> deserialize_string(st.attrs.whenGenerated),
             trades            |-> TradesSection(st),
             positions         |-> PositionsSection(st),
             cash_transactions |-> CashTransactionsSection(st),
             corporate_actions |-> CorporateActionsSection(st),
             account_information |-> AccountInformationSection(st),
             ignored           |-> Discarded(Collect([i \in 1..Len(st.others) |->
                                       OtherChild_deserialize(st.others[i])]))])

\* TradeConfirmationStatement: accountId and the Trades section
TradeConfirmationStatement_deserialize(st) ==
    Collect([account_id |-> deserialize_string(st.attrs.accountId),
             trades     |-> TradesSection(st)])

\* from_str(xml).map_err(..)
parse_trade_confirmation(st) == TradeConfirmationStatement_deserialize(st)

\* FlexStatementsWrapper holding a single statement instead of a Vec
FlexStatementsWrapper_first_only(sts) ==
    IF sts = <<>> THEN Err
    ELSE Collect(<<ActivityFlexStatement_deserialize(Head(sts))>>)

\* statements: Vec<ActivityFlexStatement> without a default: no FlexStatement
\* element at all is a missing field
FlexStatementsWrapper_deserialize(sts) ==
    IF sts = <<>> THEN Err
    ELSE Collect([i \in 1..Len(sts) |-> ActivityFlexStatement_deserialize(sts[i])])

StatementsWrapper(w) == IF w.ok THEN Ok([statements |-> V(w)]) ELSE Err

FlexQueryResponse_deserialize(d) ==
    StatementsWrapper(FlexStatementsWrapper_deserialize(d.statements))

\* parse_activity_flex taking the last statement instead of the first
\* .statements.statements.into_iter().last().ok_or_else(..)
LastStatement(r) ==
    IF ~r.ok THEN Err
    ELSE IF V(r).statements = <<>> THEN Err
    ELSE Ok(V(r).statements[Len(V(r).statements)])

\* parse_activity_flex taking the last statement instead of the first
parse_activity_flex_last(d) == LastStatement(FlexQueryResponse_deserialize(d))

\* .statements.statements.into_iter().next().ok_or_else(..)
FirstStatement(r) ==
    IF ~r.ok THEN Err
    ELSE IF V(r).statements = <<>> THEN Err
    ELSE Ok(Head(V(r).statements))

parse_activity_flex(d) == FirstStatement(FlexQueryResponse_deserialize(d))

----------------------------------------------------------------------------
(* The derivative projection of Trade and Position.                        *)

\* Trade::derivative with the Option arm defaulting a missing underlying symbol
Trade_derivative_default_underlying(t) ==
    IF t.asset_category = "Option"
    THEN IF IsSome(t.strike) /\ IsSome(t.expiry) /\ IsSome(t.put_call)
         THEN Some([type |-> "Option",
                    strike |-> Unwrap(t.strike),
                    expiry |-> Unwrap(t.expiry),
                    put_call |-> Unwrap(t.put_call),
                    underlying_symbol |->
                        IF IsSome(t.underlying_symbol) THEN Unwrap(t.underlying_symbol) ELSE "",
                    underlying_conid |-> t.underlying_conid])
         ELSE None
    ELSE None

Trade_derivative(t) ==
    CASE t.asset_category = "Option" ->
            IF IsSome(t.strike) /\ IsSome(t.expiry) /\ IsSome(t.put_call)
               /\ IsSome(t.underlying_symbol)
            THEN Some([type |-> "Option",
                       strike |-> Unwrap(t.strike),
                       expiry |-> Unwrap(t.expiry),
                       put_call |-> Unwrap(t.put_call),
                       underlying_symbol |-> Unwrap(t.underlying_symbol),
                       underlying_conid |-> t.underlying_conid])
            ELSE None
      [] t.asset_category = "Future" ->
            IF IsSome(t.expiry) /\ IsSome(t.underlying_symbol)
            THEN Some([type |-> "Future",
                       expiry |-> Unwrap(t.expiry),
                       underlying_symbol |-> Unwrap(t.underlying_symbol),
                       underlying_conid |-> t.underlying_conid])
            ELSE None
      [] t.asset_category = "FutureOption" ->
            IF IsSome(t.strike) /\ IsSome(t.expiry) /\ IsSome(t.put_call)
               /\ IsSome(t.underlying_symbol)
            THEN Some([type |-> "FutureOption",
                       strike |-> Unwrap(t.strike),
                       expiry |-> Unwrap(t.expiry),
                       put_call |-> Unwrap(t.put_call),
                       underlying_symbol |-> Unwrap(t.underlying_symbol),
                       underlying_conid |-> t.underlying_conid])
            ELSE None
      [] t.asset_category = "Warrant" ->
            IF IsSome(t.underlying_symbol)
            THEN Some([type |-> "Warrant",
                       strike |-> t.strike,
                       expiry |-> t.expiry,
                       underlying_symbol |-> Some(Unwrap(t.underlying_symbol))])
            ELSE None
      [] OTHER -> None

\* Position::derivative with the Future arm falling back to the position's symbol
Position_derivative_symbol_fallback(p) ==
    IF p.asset_category = "Future"
    THEN IF IsSome(p.expiry)
         THEN Some([type |-> "Future",
                    expiry |-> Unwrap(p.expiry),
                    underlying_symbol |->
                        IF IsSome(p.underlying_symbol) THEN Unwrap(p.underlying_symbol)
                        ELSE p.symbol,
                    underlying_conid |-> p.underlying_conid])
         ELSE None
    ELSE None

Position_derivative(p) ==
    CASE p.asset_category = "Option" ->
            IF IsSome(p.strike) /\ IsSome(p.expiry) /\ IsSome(p.put_call)
               /\ IsSome(p.underlying_symbol)
            THEN Some([type |-> "Option",
                       strike |-> Unwrap(p.strike),
                       expiry |-> Unwrap(p.expiry),
                       put_call |-> Unwrap(p.put_call),
                       underlying_symbol |-> Unwrap(p.underlying_symbol),
                       underlying_conid |-> p.underlying_conid])
            ELSE None
      [] p.asset_category = "Future" ->
            IF IsSome(p.expiry) /\ IsSome(p.underlying_symbol)
            THEN Some([type |-> "Future",
                       expiry |-> Unwrap(p.expiry),
                       underlying_symbol |-> Unwrap(p.underlying_symbol),
                       underlying_conid |-> p.underlying_conid])
            ELSE None
      [] p.asset_category = "FutureOption" ->
            IF IsSome(p.strike) /\ IsSome(p.expiry) /\ IsSome(p.put_call)
               /\ IsSome(p.underlying_symbol)
            THEN Some([type |-> "FutureOption",
                       strike |-> Unwrap(p.strike),
                       expiry |-> Unwrap(p.expiry),
                       put_call |-> Unwrap(p.put_call),
                       underlying_symbol |-> Unwrap(p.underlying_symbol),
                       underlying_conid |-> p.underlying_conid])
            ELSE None
      [] p.asset_category = "Warrant" ->
            IF IsSome(p.underlying_symbol)
            THEN Some([type |-> "Warrant",
                       strike |-> p.strike,
                       expiry |-> p.expiry,
                       underlying_symbol |-> Some(Unwrap(p.underlying_symbol))])
            ELSE None
      [] OTHER -> None

----------------------------------------------------------------------------
(* Input texts *)

Iso_2025_01_01 == <<"2", "0", "2", "5", "-", "0", "1", "-", "0", "1">>

Iso_2025_01_31 == <<"2", "0", "2", "5", "-", "0", "1", "-", "3", "1">>

Compact_2025_01_15 == <<"2", "0", "2", "5", "0", "1", "1", "5">>

Compact_2025_03_21 == <<"2", "0", "2", "5", "0", "3", "2", "1">>

BadDateText == <<"1", "5", "/", "0", "1", "/", "2", "5">>

Dec_100 == <<"1", "0", "0">>

Dec_185_50 == <<"1", "8", "5", ".", "5", "0">>

Dec_18550 == <<"1", "8", "5", "5", "0">>

BadDecimalText == <<"1", "x", "5">>

----------------------------------------------------------------------------
(* Input elements *)

StatementA ==
    [NoAttrs EXCEPT !.accountId = Attr("U1234567"),
                    !.fromDate = Attr(Iso_2025_01_01),
                    !.toDate = Attr(Iso_2025_01_31),
                    !.whenGenerated = Attr("2025-01-31;150000")]

StatementB ==
    [NoAttrs EXCEPT !.accountId = Attr("U7654321"),
                    !.fromDate = Attr(Compact_2025_01_15),
                    !.toDate = Attr(Compact_2025_01_15),
                    !.whenGenerated = Attr("2025-01-15;150000")]

StatementReversed ==
    [StatementA EXCEPT !.fromDate = Attr(Iso_2025_01_31),
                       !.toDate = Attr(Iso_2025_01_01)]

StatementBadDate == [StatementA EXCEPT !.fromDate = Attr(BadDateText)]

StatementNoAccount == [StatementA EXCEPT !.accountId = Absent]

StatementSamples ==
    {StatementA, StatementB, StatementReversed, StatementBadDate, StatementNoAccount}

\* the three wrapper sections the model carries children for
WrapperSectionTags == {"Trades", "OpenPositions", "CorporateActions"}

NewStatement(a) ==
    [attrs |-> a, trades |-> <<>>, positions |-> <<>>, corporate_actions |-> <<>>,
     present |-> WrapperSectionTags, others |-> <<>>]

TradeA ==
    [NoAttrs EXCEPT !.accountId = Attr("U1234567"), !.conid = Attr("265598"),
                    !.symbol = Attr("AAPL"), !.assetCategory = Attr("STK"),
                    !.currency = Attr("USD"), !.tradeDate = Attr(Iso_2025_01_01),
                    !.buySell = Attr("BUY"), !.quantity = Attr(Dec_100),
                    !.tradePrice = Attr(Dec_185_50), !.isAPIOrder = Attr("N"),
                    !.strike = Attr(EmptyText)]

TradeB ==
    [NoAttrs EXCEPT !.accountId = Attr("U1234567"), !.conid = Attr("76792991"),
                    !.symbol = Attr("TSLA"), !.assetCategory = Attr("STK"),
                    !.currency = Attr("USD"), !.tradeDate = Attr(Compact_2025_01_15),
                    !.buySell = Attr("SELL")]

PositionA ==
    [NoAttrs EXCEPT !.accountId = Attr("U1234567"), !.conid = Attr("265598"),
                    !.symbol = Attr("AAPL"), !.assetCategory = Attr("STK"),
                    !.currency = Attr("USD"), !.position = Attr(Dec_100),
                    !.markPrice = Attr(Dec_185_50), !.positionValue = Attr(Dec_18550),
                    !.reportDate = Attr(Compact_2025_01_15),
                    !.isAPIOrder = Attr("N")]

CorporateActionA ==
    [NoAttrs EXCEPT !.accountId = Attr("U1234567"), !.conid = Attr("265598"),
                    !.symbol = Attr("AAPL"), !.type = Attr("Forward Split"),
                    !.reportDate = Attr(Iso_2025_01_31), !.quantity = Attr(Dec_100),
                    !.isAPIOrder = Attr("N")]

\* one attribute of an element omitted or given a text its decoder rejects
Defects == {"none", "noAccountId", "noSymbol", "noConid", "badDecimal", "badDate", "badBool"}

WithDefect(a, d, decimalAttr, dateAttr) ==
    CASE d = "none"        -> a
      [] d = "noAccountId" -> [a EXCEPT !.accountId = Absent]
      [] d = "noSymbol"    -> [a EXCEPT !.symbol = Absent]
      [] d = "noConid"     -> [a EXCEPT !.conid = Absent]
      [] d = "badDecimal"  -> [a EXCEPT ![decimalAttr] = Attr(BadDecimalText)]
      [] d = "badDate"     -> [a EXCEPT ![dateAttr] = Attr(BadDateText)]
      [] d = "badBool"     -> [a EXCEPT !.isAPIOrder = Attr("X")]

TradeElement(tag, d) == [tag |-> tag, attrs |-> WithDefect(TradeA, d, "quantity", "tradeDate")]

PositionElement(d) ==
    [tag |-> "OpenPosition", attrs |-> WithDefect(PositionA, d, "markPrice", "reportDate")]

CorporateActionElement(d) ==
    [tag |-> "CorporateAction", attrs |-> WithDefect(CorporateActionA, d, "quantity", "reportDate")]

----------------------------------------------------------------------------
(* The document and its decoding.  A caller extends the document by one    *)
(* element and decodes it: result is what parse_activity_flex returns for  *)
(* doc, response what FlexQueryResponse decodes to.                         *)

MaxElements == 3

NoProbe == [kind |-> "none", attrs |-> NoAttrs, projected |-> FALSE]

NoCode == [table |-> "none", text |-> "", out |-> Err, decoded |-> FALSE]

EmptyDoc == [statements |-> <<>>]

\* no primitive decoder has been called, no retry loop started
NoInput == [decoder |-> "none", attr |-> Absent, done |-> FALSE]

NoOutput == Err

NoClient ==
    [pc |-> "idle", max_retries |-> 0, attempt |-> 0, calls |-> 0, sleeps |-> 0,
     not_ready |-> 0, outcome |-> "none"]

\* no thread is parsing
NoThreads == <<>>

\* no document has been parsed, no record projected, no code decoded
NothingParsed ==
    /\ doc = EmptyDoc
    /\ result = parse_activity_flex(EmptyDoc)
    /\ response = FlexQueryResponse_deserialize(EmptyDoc)
    /\ deriv = None
    /\ probe = NoProbe
    /\ code = NoCode

\* a one-statement document whose Trades section holds the one Trade `attrs`
DocWithTrade(attrs) ==
    [statements |-> <<[NewStatement(StatementA) EXCEPT !.trades =
                          <<[tag |-> "Trade", attrs |-> attrs]>>]>>]

NumRecords(st) == Len(st.trades) + Len(st.positions) + Len(st.corporate_actions)

RECURSIVE SumRecords(_)
SumRecords(sts) ==
    IF sts = <<>> THEN 0 ELSE NumRecords(Head(sts)) + SumRecords(Tail(sts))

NumElements(d) == Len(d.statements) + SumRecords(d.statements)

Decode(d) ==
    /\ doc' = d
    /\ result' = parse_activity_flex(d)
    /\ response' = FlexQueryResponse_deserialize(d)
    /\ UNCHANGED <<deriv, probe, code, input, output, client, threads>>

Init ==
    /\ doc = EmptyDoc
    /\ result = parse_activity_flex(EmptyDoc)
    /\ response = FlexQueryResponse_deserialize(EmptyDoc)
    /\ deriv = None
    /\ probe = NoProbe
    /\ code = NoCode
    /\ input = NoInput
    /\ output = NoOutput
    /\ client = NoClient
    /\ threads = NoThreads

AddStatement ==
    /\ NumElements(doc) < MaxElements
    /\ \E a \in StatementSamples :
          Decode([doc EXCEPT !.statements = Append(@, NewStatement(a))])

AddTradesChild ==
    /\ NumElements(doc) < MaxElements
    /\ \E i \in DOMAIN doc.statements, tag \in {"Trade", "Order"}, d \in Defects :
          Decode([doc EXCEPT !.statements[i].trades = Append(@, TradeElement(tag, d))])

AddOpenPosition ==
    /\ NumElements(doc) < MaxElements
    /\ \E i \in DOMAIN doc.statements, d \in Defects :
          Decode([doc EXCEPT !.statements[i].positions = Append(@, PositionElement(d))])

AddCorporateAction ==
    /\ NumElements(doc) < MaxElements
    /\ \E i \in DOMAIN doc.statements, d \in Defects :
          Decode([doc EXCEPT !.statements[i].corporate_actions =
                                 Append(@, CorporateActionElement(d))])

Next ==
    \/ AddStatement
    \/ AddTradesChild
    \/ AddOpenPosition
    \/ AddCorporateAction

Spec == Init /\ [][Next]_vars

----------------------------------------------------------------------------
(* Properties of the document decode (Spec) *)

NumStatements == Len(doc.statements)

\* statement i of the document, decoded alone in a response of its own
Single(i) == FlexQueryResponse_deserialize([statements |-> <<doc.statements[i]>>])

\* C3: a response wrapping n >= 1 FlexStatement elements that each decode
\* yields exactly n statement values, the i-th being the decode of the i-th
\* element alone; a successful decode never has more or fewer values.
C3_StatementsInDocumentOrder ==
    /\ (NumStatements >= 1 /\ \A i \in 1..NumStatements : Single(i).ok)
          => /\ response.ok
             /\ Len(V(response).statements) = NumStatements
             /\ \A i \in 1..NumStatements :
                   V(response).statements[i] = Head(V(Single(i)).statements)
    /\ response.ok => Len(V(response).statements) = NumStatements

C3_Witness ==
    /\ NumStatements = 2
    /\ response.ok
    /\ V(response).statements[1].account_id = "U1234567"
    /\ V(response).statements[2].account_id = "U7654321"
    /\ Len(V(response).statements[2].trades.items) = 1

\* C4: parse_activity_flex returns the first FlexStatement in document order
\* whenever the response holds one or more statements and decodes, and an
\* error when the response holds no FlexStatement element.
C4_FirstStatementOrError ==
    /\ NumStatements = 0 => ~result.ok
    /\ (NumStatements >= 1 /\ response.ok)
          => result.ok /\ V(result) = Head(V(Single(1)).statements)
    /\ result.ok => NumStatements >= 1 /\ response.ok

C4_Witness ==
    /\ NumStatements = 2
    /\ doc.statements[1].attrs = StatementB
    /\ doc.statements[2].attrs = StatementA
    /\ result.ok
    /\ V(result).account_id = "U7654321"

\* C7: every statement value of a successful decode has from_date <= to_date.
C7_DateRangeOrdered ==
    result.ok => DateLeq(V(result).from_date, V(result).to_date)

\* the modeled attributes of each element kind that hold a text their
\* primitive decoder rejects
BadStatementAttrs(a) ==
    a.fromDate = Attr(BadDateText) \/ a.toDate = Attr(BadDateText)

BadTradeAttrs(a) ==
    \/ a.strike = Attr(BadDecimalText) \/ a.quantity = Attr(BadDecimalText)
    \/ a.tradePrice = Attr(BadDecimalText)
    \/ a.expiry = Attr(BadDateText) \/ a.tradeDate = Attr(BadDateText)
    \/ a.isAPIOrder = Attr("X")

BadPositionAttrs(a) ==
    \/ a.strike = Attr(BadDecimalText) \/ a.position = Attr(BadDecimalText)
    \/ a.markPrice = Attr(BadDecimalText) \/ a.positionValue = Attr(BadDecimalText)
    \/ a.expiry = Attr(BadDateText) \/ a.reportDate = Attr(BadDateText)

BadCorporateActionAttrs(a) ==
    a.quantity = Attr(BadDecimalText) \/ a.reportDate = Attr(BadDateText)

HasBadValue(st) ==
    \/ BadStatementAttrs(st.attrs)
    \/ \E k \in DOMAIN st.trades : BadTradeAttrs(st.trades[k].attrs)
    \/ \E k \in DOMAIN st.positions : BadPositionAttrs(st.positions[k].attrs)
    \/ \E k \in DOMAIN st.corporate_actions :
          BadCorporateActionAttrs(st.corporate_actions[k].attrs)

\* C8: when any present modeled attribute anywhere in the document holds a
\* text its primitive decoder rejects (a date in neither form, a non-numeric
\* decimal, a flag that is neither Y nor N), the decode is an error: no
\* statement is returned.
C8_BadValueIsFatal ==
    (\E i \in DOMAIN doc.statements : HasBadValue(doc.statements[i]))
        => ~result.ok /\ ~response.ok

C8_Witness ==
    /\ NumStatements = 2
    /\ Single(1).ok
    /\ Len(doc.statements[2].trades) = 1
    /\ doc.statements[2].trades[1].tag = "Order"
    /\ doc.statements[2].trades[1].attrs.quantity = Attr(BadDecimalText)
    /\ ~result.ok

MissingKey(a) == a.accountId = Absent \/ a.symbol = Absent \/ a.conid = Absent

HasMissingKey(st) ==
    \/ st.attrs.accountId = Absent
    \/ \E k \in DOMAIN st.trades :
          st.trades[k].tag = "Trade" /\ MissingKey(st.trades[k].attrs)
    \/ \E k \in DOMAIN st.positions : MissingKey(st.positions[k].attrs)
    \/ \E k \in DOMAIN st.corporate_actions : MissingKey(st.corporate_actions[k].attrs)

\* C9: when accountId, symbol or conid is omitted from any Trade,
\* OpenPosition or CorporateAction element, or accountId from a FlexStatement
\* element, the decode of the whole document is an error.
C9_MissingKeyIsFatal ==
    (\E i \in DOMAIN doc.statements : HasMissingKey(doc.statements[i]))
        => ~result.ok /\ ~response.ok

C9_Witness ==
    /\ NumStatements = 2
    /\ Single(1).ok
    /\ Len(doc.statements[2].corporate_actions) = 1
    /\ doc.statements[2].corporate_actions[1].attrs.conid = Absent
    /\ ~result.ok

\* C27: parse_activity_flex decodes the whole response before it selects
\* the first statement: when a FlexStatement after the first does not decode
\* (a missing mandatory attribute, a rejected value), the call returns an
\* error although the first statement decodes.
C27_LaterStatementErrorIsFatal ==
    \A i \in 2..NumStatements : ~Single(i).ok => ~result.ok /\ ~response.ok

C27_Witness ==
    /\ NumStatements = 2
    /\ Single(1).ok
    /\ doc.statements[1].attrs = StatementB
    /\ doc.statements[2].attrs = StatementNoAccount
    /\ doc.statements[2].trades = <<>>
    /\ ~Single(2).ok
    /\ ~result.ok

----------------------------------------------------------------------------
(* The Trades section on its own (SpecTrades): one statement, to whose     *)
(* Trades section a caller appends one child before calling                *)
(* parse_activity_flex.                                                     *)

MaxChildren == 3

SectionTags == TradesItemTags \cup {"Cancel"}

TradeNoAccount == [TradeA EXCEPT !.accountId = Absent]

TradeSamples == {TradeA, TradeB, TradeNoAccount}

Children == doc.statements[1].trades

WithChildren(cs) == [doc EXCEPT !.statements[1].trades = cs]

InitTrades ==
    /\ doc = [statements |-> <<NewStatement(StatementA)>>]
    /\ result = parse_activity_flex(doc)
    /\ response = FlexQueryResponse_deserialize(EmptyDoc)
    /\ deriv = None
    /\ probe = NoProbe
    /\ code = NoCode
    /\ input = NoInput
    /\ output = NoOutput
    /\ client = NoClient
    /\ threads = NoThreads

ExtendTradesSection ==
    /\ Len(Children) < MaxChildren
    /\ \E tag \in SectionTags, a \in TradeSamples :
          /\ doc' = WithChildren(Append(Children, [tag |-> tag, attrs |-> a]))
          /\ result' = parse_activity_flex(doc')
    /\ UNCHANGED <<response, deriv, probe, code, input, output, client, threads>>

NextTrades == ExtendTradesSection

SpecTrades == InitTrades /\ [][NextTrades]_vars

Tagged(tag) == SelectSeq(Children, LAMBDA e : e.tag = tag)

DecodedTrades(es) == [i \in 1..Len(es) |-> V(Trade_deserialize(es[i].attrs))]

AllChildrenDecode ==
    \A k \in DOMAIN Children :
        Children[k].tag \in TradesItemTags /\ Trade_deserialize(Children[k].attrs).ok

\* C1: for a Trades section whose children all decode, items is exactly the
\* subsequence of the children tagged Trade and wash_sales exactly the
\* subsequence tagged WashSale, each in document order; nothing tagged Order,
\* SymbolSummary, AssetSummary or Lot is in either list.
C1_BucketsAreTaggedSubsequences ==
    /\ AllChildrenDecode => result.ok
    /\ result.ok =>
          /\ Len(V(result).trades.items) = Len(Tagged("Trade"))
          /\ Len(V(result).trades.wash_sales) = Len(Tagged("WashSale"))
          /\ V(result).trades.items = DecodedTrades(Tagged("Trade"))
          /\ V(result).trades.wash_sales = DecodedTrades(Tagged("WashSale"))

C1_Witness ==
    /\ result.ok
    /\ Len(Children) = 3
    /\ Children[1] = [tag |-> "Trade", attrs |-> TradeB]
    /\ Children[2] = [tag |-> "WashSale", attrs |-> TradeB]
    /\ Children[3] = [tag |-> "Trade", attrs |-> TradeA]
    /\ Len(V(result).trades.items) = 2
    /\ V(result).trades.items[1].symbol = "TSLA"
    /\ V(result).trades.items[2].symbol = "AAPL"
    /\ Len(V(result).trades.wash_sales) = 1

DiscardedTags == {"Order", "SymbolSummary", "AssetSummary", "Lot"}

\* the section before any child tagged Order, SymbolSummary, AssetSummary or
\* Lot was inserted into it, and its decode
WithoutDiscarded == SelectSeq(Children, LAMBDA e : e.tag \notin DiscardedTags)

ResultWithoutDiscarded == parse_activity_flex(WithChildren(WithoutDiscarded))

HasDiscarded == \E k \in DOMAIN Children : Children[k].tag \in DiscardedTags

\* C2 as stated: inserting any elements tagged Order, SymbolSummary,
\* AssetSummary or Lot at any positions never turns a successful decode into
\* a failure and leaves items and wash_sales unchanged.
C2_AnyDiscardedInsertIsHarmless ==
    ResultWithoutDiscarded.ok
        => result.ok /\ V(result).trades = V(ResultWithoutDiscarded).trades

\* C2 amended: inserting, at any positions, elements with those tags whose
\* attributes decode as a Trade record never turns a successful decode into
\* a failure and leaves items and wash_sales unchanged.
C2_DecodableDiscardedInsertIsHarmless ==
    (/\ ResultWithoutDiscarded.ok
     /\ \A k \in DOMAIN Children :
           Children[k].tag \in DiscardedTags => Trade_deserialize(Children[k].attrs).ok)
        => result.ok /\ V(result).trades = V(ResultWithoutDiscarded).trades

C2_Witness ==
    /\ result.ok
    /\ Len(Children) = 3
    /\ Children[1].tag = "Trade"
    /\ Children[2] = [tag |-> "Lot", attrs |-> TradeB]
    /\ Children[3].tag = "WashSale"
    /\ Len(V(result).trades.items) = 1
    /\ Len(V(result).trades.wash_sales) = 1

HasUnlistedTag == \E k \in DOMAIN Children : Children[k].tag \notin TradesItemTags

\* C29: a child of the Trades section whose tag is none of Trade, Order,
\* SymbolSummary, AssetSummary, WashSale and Lot is not silently discarded:
\* the decode of the whole document is an error, so no bucket receives it.
C29_UnlistedTagIsFatal ==
    HasUnlistedTag => ~result.ok

C29_Witness ==
    /\ Len(Children) = 2
    /\ Children[1] = [tag |-> "Trade", attrs |-> TradeA]
    /\ Children[2] = [tag |-> "Cancel", attrs |-> TradeA]
    /\ ~result.ok
    /\ parse_activity_flex(WithChildren(SubSeq(Children, 1, 1))).ok

----------------------------------------------------------------------------
(* The derivative projection (SpecDeriv): a caller decodes one Trade or    *)
(* OpenPosition element and asks for its derivative().                      *)

CategoryTexts == DOMAIN AssetCategoryVocab \cup {"XYZ"}

ProbeAttrs(base) ==
    { [base EXCEPT !.assetCategory = Attr(c), !.strike = k, !.expiry = e,
                   !.putCall = pc, !.underlyingSymbol = us, !.underlyingConid = uc] :
        c \in CategoryTexts,
        k \in {Absent, Attr(EmptyText), Attr(Dec_100)},
        e \in {Absent, Attr(Compact_2025_03_21)},
        pc \in {Absent, Attr("C"), Attr("X")},
        us \in {Absent, Attr("SPY")},
        uc \in {Absent, Attr("756733")} }

InitDeriv ==
    /\ doc = EmptyDoc
    /\ result = parse_activity_flex(EmptyDoc)
    /\ response = FlexQueryResponse_deserialize(EmptyDoc)
    /\ deriv = None
    /\ probe \in { [kind |-> "Trade", attrs |-> a, projected |-> FALSE] :
                      a \in ProbeAttrs(TradeA) }
               \cup { [kind |-> "Position", attrs |-> a, projected |-> FALSE] :
                         a \in ProbeAttrs(PositionA) }
    /\ code = NoCode
    /\ input = NoInput
    /\ output = NoOutput
    /\ client = NoClient
    /\ threads = NoThreads

TradeDerivative ==
    /\ probe.kind = "Trade"
    /\ ~probe.projected
    /\ probe' = [probe EXCEPT !.projected = TRUE]
    /\ deriv' = Trade_derivative(V(Trade_deserialize(probe.attrs)))
    /\ UNCHANGED <<doc, result, response, code, input, output, client, threads>>

PositionDerivative ==
    /\ probe.kind = "Position"
    /\ ~probe.projected
    /\ probe' = [probe EXCEPT !.projected = TRUE]
    /\ deriv' = Position_derivative(V(Position_deserialize(probe.attrs)))
    /\ UNCHANGED <<doc, result, response, code, input, output, client, threads>>

NextDeriv == TradeDerivative \/ PositionDerivative

SpecDeriv == InitDeriv /\ [][NextDeriv]_vars

\* the record the projection was taken from
Probed ==
    IF probe.kind = "Trade" THEN V(Trade_deserialize(probe.attrs))
    ELSE V(Position_deserialize(probe.attrs))

OptionFieldsPresent(r) ==
    IsSome(r.strike) /\ IsSome(r.expiry) /\ IsSome(r.put_call) /\ IsSome(r.underlying_symbol)

\* the fields of an Option or FutureOption projection are the record's own
OptionFieldsCopied(d, r) ==
    /\ <<d.strike>> = r.strike
    /\ <<d.expiry>> = r.expiry
    /\ <<d.put_call>> = r.put_call
    /\ <<d.underlying_symbol>> = r.underlying_symbol
    /\ d.underlying_conid = r.underlying_conid

\* C5: a Trade of category Option with strike, expiry, put/call and
\* underlying symbol all present has a populated DerivativeInfo::Option; with
\* any one of the four absent derivative() is absent.
C5_OptionTradeProjection ==
    (probe.kind = "Trade" /\ probe.projected)
        => LET t == Probed
           IN  t.asset_category = "Option"
                   => IF OptionFieldsPresent(t)
                      THEN /\ IsSome(deriv)
                           /\ deriv[1].type = "Option"
                           /\ OptionFieldsCopied(deriv[1], t)
                      ELSE deriv = None

C5_Witness ==
    /\ probe.kind = "Trade"
    /\ probe.projected
    /\ IsSome(deriv)
    /\ deriv[1].type = "Option"
    /\ OptionFieldsPresent(Probed)
    /\ deriv[1].underlying_symbol = "SPY"

RequiredFieldsPresent(r) ==
    CASE r.asset_category \in {"Option", "FutureOption"} -> OptionFieldsPresent(r)
      [] r.asset_category = "Future" -> IsSome(r.expiry) /\ IsSome(r.underlying_symbol)
      [] r.asset_category = "Warrant" -> IsSome(r.underlying_symbol)
      [] OTHER -> FALSE

ProjectionCopiesRecord(d, r) ==
    CASE r.asset_category \in {"Option", "FutureOption"} ->
            d.type = r.asset_category /\ OptionFieldsCopied(d, r)
      [] r.asset_category = "Future" ->
            /\ d.type = "Future"
            /\ <<d.expiry>> = r.expiry
            /\ <<d.underlying_symbol>> = r.underlying_symbol
            /\ d.underlying_conid = r.underlying_conid
      [] r.asset_category = "Warrant" ->
            /\ d.type = "Warrant"
            /\ d.strike = r.strike
            /\ d.expiry = r.expiry
            /\ d.underlying_symbol = r.underlying_symbol
      [] OTHER -> FALSE

\* C6: derivative() of a Trade and of a Position is populated only when the
\* category is Option, Future, FutureOption or Warrant and that category's
\* required fields are all present; for every other category it is absent
\* whatever fields are set; every field of a populated projection is the
\* record's own decoded field.
C6_ProjectionOnlyFromRecord ==
    probe.projected
        => LET r == Probed
           IN  /\ IsSome(deriv) <=> RequiredFieldsPresent(r)
               /\ IsSome(deriv) => ProjectionCopiesRecord(deriv[1], r)

C6_Witness ==
    /\ probe.kind = "Position"
    /\ probe.projected
    /\ IsSome(deriv)
    /\ deriv[1].type = "Future"
    /\ IsNone(Probed.strike)

----------------------------------------------------------------------------
(* Code tables (SpecCodes): a code text is decoded against one table, and  *)
(* a document carrying that text in a code attribute is parsed.            *)

\* texts no table lists
UnlistedTexts == {"", "INVALID", "stk", "Unknown", "NEWCODE"}

CodeTexts == UNION { DOMAIN CodeTable(t) : t \in CodeTableNames } \cup UnlistedTexts

\* the tables with an attribute on the modeled records
AttributeTables == {"AssetCategory", "BuySell", "PutCall", "CorporateActionType"}

\* a one-statement document with one record whose code attribute is `text`
DocWithCode(table, text) ==
    LET st == NewStatement(StatementA)
    IN  [statements |-> <<
          CASE table = "AssetCategory" ->
                 [st EXCEPT !.trades = <<[tag |-> "Trade",
                      attrs |-> [TradeA EXCEPT !.assetCategory = Attr(text)]]>>]
            [] table = "BuySell" ->
                 [st EXCEPT !.trades = <<[tag |-> "Trade",
                      attrs |-> [TradeA EXCEPT !.buySell = Attr(text)]]>>]
            [] table = "PutCall" ->
                 [st EXCEPT !.trades = <<[tag |-> "Trade",
                      attrs |-> [TradeA EXCEPT !.putCall = Attr(text)]]>>]
            [] table = "CorporateActionType" ->
                 [st EXCEPT !.corporate_actions = <<[tag |-> "CorporateAction",
                      attrs |-> [CorporateActionA EXCEPT !.type = Attr(text)]]>>] >>]

InitCodes ==
    /\ doc = EmptyDoc
    /\ result = parse_activity_flex(EmptyDoc)
    /\ response = FlexQueryResponse_deserialize(EmptyDoc)
    /\ deriv = None
    /\ probe = NoProbe
    /\ code \in { [table |-> t, text |-> x, out |-> Err, decoded |-> FALSE] :
                     t \in CodeTableNames, x \in CodeTexts }
    /\ input = NoInput
    /\ output = NoOutput
    /\ client = NoClient
    /\ threads = NoThreads

DecodeCode ==
    /\ ~code.decoded
    /\ code' = [code EXCEPT !.out = DecodeEnum(code.table, code.text), !.decoded = TRUE]
    /\ UNCHANGED <<doc, result, response, deriv, probe, input, output, client, threads>>

ParseDocWithCode ==
    /\ code.decoded
    /\ code.table \in AttributeTables
    /\ code.text # ""
    /\ doc = EmptyDoc
    /\ doc' = DocWithCode(code.table, code.text)
    /\ result' = parse_activity_flex(doc')
    /\ response' = FlexQueryResponse_deserialize(doc')
    /\ UNCHANGED <<deriv, probe, code, input, output, client, threads>>

NextCodes == DecodeCode \/ ParseDocWithCode

SpecCodes == InitCodes /\ [][NextCodes]_vars

\* the decoded code of the record DocWithCode put into the document
ParsedCode(st, table) ==
    CASE table = "AssetCategory" -> st.trades.items[1].asset_category
      [] table = "BuySell" -> Unwrap(st.trades.items[1].buy_sell)
      [] table = "PutCall" -> Unwrap(st.trades.items[1].put_call)
      [] table = "CorporateActionType" -> Unwrap(st.corporate_actions.items[1].action_type)

\* C10: for every code table, decoding a text outside the table's vocabulary
\* succeeds and yields the table's Unknown member, and a document carrying
\* such a text in a code attribute still parses, the attribute read as Unknown.
C10_UnlistedCodeIsUnknown ==
    (code.decoded /\ code.text \notin DOMAIN CodeTable(code.table))
        => /\ code.out = Ok("Unknown")
           /\ doc # EmptyDoc
                 => result.ok /\ ParsedCode(V(result), code.table) = "Unknown"

C10_Witness ==
    /\ code.decoded
    /\ code.table = "AssetCategory"
    /\ code.text = "INVALID"
    /\ doc # EmptyDoc
    /\ result.ok
    /\ V(result).trades.items[1].asset_category = "Unknown"

----------------------------------------------------------------------------
(* The notes attribute (SpecNotes): a caller decodes one notes text with   *)
(* deserialize_transaction_codes, then parses a Trade carrying it.         *)

MaxNotesLen == 4

NotesChars == {"C", "W", "a", "Z", ";"}

RECURSIVE TextsUpTo(_, _)
TextsUpTo(chars, n) ==
    IF n = 0 THEN {<<>>}
    ELSE LET shorter == TextsUpTo(chars, n - 1)
         IN  shorter \cup { Append(t, c) : t \in shorter, c \in chars }

NotesAttrs == {Absent} \cup { Attr(t) : t \in TextsUpTo(NotesChars, MaxNotesLen) }

InitNotes ==
    /\ doc = EmptyDoc
    /\ result = parse_activity_flex(EmptyDoc)
    /\ response = FlexQueryResponse_deserialize(EmptyDoc)
    /\ deriv = None
    /\ probe = NoProbe
    /\ code = NoCode
    /\ input \in { [decoder |-> "transaction_codes", attr |-> a, done |-> FALSE] :
                      a \in NotesAttrs }
    /\ output = NoOutput
    /\ client = NoClient
    /\ threads = NoThreads

DecodeNotes ==
    /\ input.decoder = "transaction_codes"
    /\ ~input.done
    /\ input' = [input EXCEPT !.done = TRUE]
    /\ output' = deserialize_transaction_codes(input.attr)
    /\ UNCHANGED <<doc, result, response, deriv, probe, code, client, threads>>

ParseTradeWithNotes ==
    /\ input.decoder = "transaction_codes"
    /\ input.done
    /\ doc = EmptyDoc
    /\ doc' = [statements |-> <<[NewStatement(StatementA) EXCEPT !.trades =
                   <<[tag |-> "Trade", attrs |-> [TradeA EXCEPT !.notes = input.attr]]>>]>>]
    /\ result' = parse_activity_flex(doc')
    /\ response' = FlexQueryResponse_deserialize(doc')
    /\ UNCHANGED <<deriv, probe, code, input, output, client, threads>>

NextNotes == DecodeNotes \/ ParseTradeWithNotes

SpecNotes == InitNotes /\ [][NextNotes]_vars

NotesText == input.attr[1]

\* the positions where a token starts: a character other than ';' that is
\* the first of the text or follows a ';'
TokenStarts ==
    { i \in 1..Len(NotesText) :
        NotesText[i] # ";" /\ (i = 1 \/ NotesText[i - 1] = ";") }

\* the token starting at position i: the characters up to the next ';'
TokenEnd(i) ==
    CHOOSE j \in i..Len(NotesText) :
        /\ \A k \in i..j : NotesText[k] # ";"
        /\ j = Len(NotesText) \/ NotesText[j + 1] = ";"

TokenAt(i) == Concat(SubSeq(NotesText, i, TokenEnd(i)))

\* the number of token starts before position i, plus one
TokenIndex(i) == Cardinality({ j \in TokenStarts : j <= i })

TableCode(token) ==
    IF token \in DOMAIN TransactionCodeVocab THEN TransactionCodeVocab[token]
    ELSE "Unknown"

NumSeparators == Cardinality({ i \in 1..Len(NotesText) : NotesText[i] = ";" })

NotesDecoded ==
    input.decoder = "transaction_codes" /\ input.done
        /\ input.attr # Absent /\ input.attr[1] # EmptyText

\* C11 as stated: the pieces of the text between ';' are the tokens, each
\* one decoded at its own position, so the list has one code per piece.
C11_OneCodePerPiece ==
    NotesDecoded
        => /\ output.ok
           /\ IsSome(V(output))
           /\ Len(Unwrap(V(output))) = NumSeparators + 1

\* C11 amended: on a non-empty notes text the decoder never fails and
\* returns one code per non-empty token, in the order of the tokens and
\* with duplicates kept, a token the table does not list giving Unknown at
\* its own position; empty pieces (a leading, trailing or doubled ';') give
\* no code.  A Trade carrying the text decodes to the same list.
C11_OneCodePerNonEmptyToken ==
    NotesDecoded
        => /\ output.ok
           /\ IsSome(V(output))
           /\ Len(Unwrap(V(output))) = Cardinality(TokenStarts)
           /\ \A i \in TokenStarts :
                 Unwrap(V(output))[TokenIndex(i)] = TableCode(TokenAt(i))
           /\ doc # EmptyDoc
                 => result.ok /\ V(result).trades.items[1].notes = V(output)

C11_Witness ==
    /\ NotesDecoded
    /\ NotesText = <<"C", ";", "W">>
    /\ output = Ok(Some(<<"Closing", "WashSale">>))
    /\ doc # EmptyDoc
    /\ result.ok

NotesCalled == input.decoder = "transaction_codes" /\ input.done

OnlySeparators ==
    /\ input.attr # Absent
    /\ NotesText # EmptyText
    /\ \A i \in 1..Len(NotesText) : NotesText[i] = ";"

\* C28: deserialize_transaction_codes returns 'no value' exactly when the
\* notes attribute is absent or the empty text; otherwise the list has as
\* many codes as the text has non-empty tokens, the empty tokens of a
\* leading, trailing or doubled ';' giving none, and a text made only of
\* ';' gives a present, empty list.
C28_NoValueOnlyForAbsentOrEmpty ==
    NotesCalled
        => /\ output.ok
           /\ IsNone(V(output)) <=> (input.attr = Absent \/ input.attr[1] = EmptyText)
           /\ IsSome(V(output)) => Len(Unwrap(V(output))) = Cardinality(TokenStarts)
           /\ OnlySeparators => output = Ok(Some(<<>>))

C28_Witness ==
    /\ NotesCalled
    /\ input.attr # Absent
    /\ NotesText = <<";", ";">>
    /\ output = Ok(Some(<<>>))

----------------------------------------------------------------------------
(* The Y/N flag (SpecBool): a caller decodes one flag text with            *)
(* deserialize_optional_bool, then parses a Trade carrying it as           *)
(* isAPIOrder.                                                             *)

MaxFlagLen == 3

FlagChars == {"Y", "y", "N", "n", "X", " ", "e", "s"}

FlagAttrs ==
    {Absent} \cup { Attr(Concat(t)) : t \in TextsUpTo(FlagChars, MaxFlagLen) }
             \cup {Attr("true"), Attr("false")}

InitBool ==
    /\ NothingParsed
    /\ input \in { [decoder |-> "bool", attr |-> a, done |-> FALSE] : a \in FlagAttrs }
    /\ output = NoOutput
    /\ client = NoClient
    /\ threads = NoThreads

DecodeBool ==
    /\ input.decoder = "bool"
    /\ ~input.done
    /\ input' = [input EXCEPT !.done = TRUE]
    /\ output' = deserialize_optional_bool(input.attr)
    /\ UNCHANGED <<doc, result, response, deriv, probe, code, client, threads>>

ParseTradeWithFlag ==
    /\ input.decoder = "bool"
    /\ input.done
    /\ doc = EmptyDoc
    /\ doc' = DocWithTrade([TradeA EXCEPT !.isAPIOrder = input.attr])
    /\ result' = parse_activity_flex(doc')
    /\ response' = FlexQueryResponse_deserialize(doc')
    /\ UNCHANGED <<deriv, probe, code, input, output, client, threads>>

NextBool == DecodeBool \/ ParseTradeWithFlag

SpecBool == InitBool /\ [][NextBool]_vars

\* C12: the flag decoder returns true for exactly Y and y, false for exactly
\* N and n, no value for the empty text and for an omitted attribute, and an
\* error for every other text; a Trade carrying an unrecognized flag fails
\* to parse, it is never read with a default.
C12_FlagDecodesExactly ==
    (input.decoder = "bool" /\ input.done)
        => /\ output.ok <=> (input.attr = Absent \/ input.attr[1] \in {"Y", "y", "N", "n", ""})
           /\ output.ok =>
                 V(output) = (CASE input.attr = Absent -> None
                                [] input.attr \in {Attr("Y"), Attr("y")} -> Some(TRUE)
                                [] input.attr \in {Attr("N"), Attr("n")} -> Some(FALSE)
                                [] OTHER -> None)
           /\ doc # EmptyDoc
                 => /\ result.ok <=> output.ok
                    /\ result.ok => V(result).trades.items[1].is_api_order = V(output)

C12_Witness ==
    /\ input.decoder = "bool"
    /\ input.done
    /\ input.attr = Attr("Y ")
    /\ ~output.ok
    /\ doc # EmptyDoc
    /\ ~result.ok

----------------------------------------------------------------------------
(* The two date forms (SpecDates): a calendar date is written in the ISO   *)
(* or in the compact form and the text decoded with parse_flex_date.       *)

DigitChar(n) == CHOOSE c \in Digits : DigitVal(c) = n

\* n in decimal, zero-padded to `width` digits
RECURSIVE PadNumber(_, _)
PadNumber(n, width) ==
    IF width = 0 THEN <<>>
    ELSE Append(PadNumber(n \div 10, width - 1), DigitChar(n % 10))

\* YYYY-MM-DD when form is "iso", YYYYMMDD when it is "compact"
WriteDate(date, form) ==
    IF form = "iso"
    THEN PadNumber(date.year, 4) \o <<"-">> \o PadNumber(date.month, 2)
            \o <<"-">> \o PadNumber(date.day, 2)
    ELSE PadNumber(date.year, 4) \o PadNumber(date.month, 2) \o PadNumber(date.day, 2)

SampleYears == {0, 1, 1900, 2000, 2024, 2025, 9999}

CalendarDates ==
    { c \in { [year |-> y, month |-> m, day |-> d] :
                y \in SampleYears, m \in 1..12, d \in 1..31 } :
        c.day <= DaysInMonth(c.year, c.month) }

InitDates ==
    /\ NothingParsed
    /\ input \in { [decoder |-> "date", date |-> dt, form |-> f,
                      attr |-> Attr(WriteDate(dt, f)), done |-> FALSE] :
                      dt \in CalendarDates,
                      f \in {"iso", "compact"} }
    /\ output = NoOutput
    /\ client = NoClient
    /\ threads = NoThreads

DecodeDate ==
    /\ input.decoder = "date"
    /\ ~input.done
    /\ input' = [input EXCEPT !.done = TRUE]
    /\ output' = parse_flex_date(input.attr[1])
    /\ UNCHANGED <<doc, result, response, deriv, probe, code, client, threads>>

NextDates == DecodeDate

SpecDates == InitDates /\ [][NextDates]_vars

OtherForm(form) == IF form = "iso" THEN "compact" ELSE "iso"

\* C13: for every valid calendar date, the decode of its ISO text and the
\* decode of its compact text are the same date value, the date written.
C13_DateFormAgnostic ==
    (input.decoder = "date" /\ input.done)
        => /\ output.ok
           /\ output = parse_flex_date(WriteDate(input.date, OtherForm(input.form)))
           /\ V(output) = input.date

C13_Witness ==
    /\ input.decoder = "date"
    /\ input.done
    /\ input.form = "compact"
    /\ input.attr = Attr(<<"2", "0", "2", "4", "0", "2", "2", "9">>)
    /\ output = Ok([year |-> 2024, month |-> 2, day |-> 29])

----------------------------------------------------------------------------
(* The optional-field decoders (SpecOptional): a caller decodes one        *)
(* attribute, omitted, empty or holding a text, with one of the five       *)
(* decoders of optional fields.                                            *)

OptionalDecoders == {"decimal", "date", "string", "bool", "transaction_codes"}

\* the empty text in the representation the decoder's texts have
EmptyFor(decoder) == IF decoder \in {"string", "bool"} THEN "" ELSE EmptyText

DecimalAttrs ==
    {Absent, Attr(EmptyText), Attr(Dec_100), Attr(Dec_185_50), Attr(BadDecimalText)}

DateAttrs ==
    {Absent, Attr(EmptyText), Attr(Iso_2025_01_31), Attr(Compact_2025_03_21),
     Attr(BadDateText)}

StringAttrs == {Absent, Attr(""), Attr(" "), Attr("AAPL"), Attr("U1234567")}

InitOptional ==
    /\ NothingParsed
    /\ \/ input \in { [decoder |-> "decimal", attr |-> a, done |-> FALSE] : a \in DecimalAttrs }
       \/ input \in { [decoder |-> "date", attr |-> a, done |-> FALSE] : a \in DateAttrs }
       \/ input \in { [decoder |-> "string", attr |-> a, done |-> FALSE] : a \in StringAttrs }
       \/ input \in { [decoder |-> "bool", attr |-> a, done |-> FALSE] : a \in FlagAttrs }
       \/ input \in { [decoder |-> "transaction_codes", attr |-> a, done |-> FALSE] :
                         a \in NotesAttrs }
    /\ output = NoOutput
    /\ client = NoClient
    /\ threads = NoThreads

DecodeOptionalDecimal ==
    /\ input.decoder = "decimal"
    /\ ~input.done
    /\ input' = [input EXCEPT !.done = TRUE]
    /\ output' = deserialize_optional_decimal(input.attr)
    /\ UNCHANGED <<doc, result, response, deriv, probe, code, client, threads>>

DecodeOptionalDate ==
    /\ input.decoder = "date"
    /\ ~input.done
    /\ input' = [input EXCEPT !.done = TRUE]
    /\ output' = deserialize_optional_date(input.attr)
    /\ UNCHANGED <<doc, result, response, deriv, probe, code, client, threads>>

DecodeOptionalString ==
    /\ input.decoder = "string"
    /\ ~input.done
    /\ input' = [input EXCEPT !.done = TRUE]
    /\ output' = deserialize_optional_string(input.attr)
    /\ UNCHANGED <<doc, result, response, deriv, probe, code, client, threads>>

DecodeOptionalBool ==
    /\ input.decoder = "bool"
    /\ ~input.done
    /\ input' = [input EXCEPT !.done = TRUE]
    /\ output' = deserialize_optional_bool(input.attr)
    /\ UNCHANGED <<doc, result, response, deriv, probe, code, client, threads>>

DecodeTransactionCodeList ==
    /\ input.decoder = "transaction_codes"
    /\ ~input.done
    /\ input' = [input EXCEPT !.done = TRUE]
    /\ output' = deserialize_transaction_codes(input.attr)
    /\ UNCHANGED <<doc, result, response, deriv, probe, code, client, threads>>

NextOptional ==
    \/ DecodeOptionalDecimal
    \/ DecodeOptionalDate
    \/ DecodeOptionalString
    \/ DecodeOptionalBool
    \/ DecodeTransactionCodeList

SpecOptional == InitOptional /\ [][NextOptional]_vars

\* what the decoder named `decoder` returns for the attribute a
OptionalDecode(decoder, a) ==
    CASE decoder = "decimal" -> deserialize_optional_decimal(a)
      [] decoder = "date" -> deserialize_optional_date(a)
      [] decoder = "string" -> deserialize_optional_string(a)
      [] decoder = "bool" -> deserialize_optional_bool(a)
      [] decoder = "transaction_codes" -> deserialize_transaction_codes(a)

EmptyOrOmitted ==
    input.attr = Absent \/ input.attr = Attr(EmptyFor(input.decoder))

\* C14: for each of the five optional-field decoders an attribute holding
\* the empty text and an omitted attribute decode to the same result, no
\* value, and neither is an error.
C14_EmptyIsOmitted ==
    (input.decoder \in OptionalDecoders /\ input.done /\ EmptyOrOmitted)
        => /\ output = Ok(None)
           /\ OptionalDecode(input.decoder, Absent) = output
           /\ OptionalDecode(input.decoder, Attr(EmptyFor(input.decoder))) = output

C14_Witness ==
    /\ input.decoder = "string"
    /\ input.done
    /\ input.attr = Attr("")
    /\ output = Ok(None)

----------------------------------------------------------------------------
(* The end-to-end scenario: a document of one statement whose Trades       *)
(* section holds one Trade, every other section empty or left out, parsed  *)
(* once by parse_activity_flex (SpecScenario).                              *)

ScenarioTrades ==
    {[TradeA EXCEPT !.symbol = Attr(sym), !.buySell = bs, !.quantity = q,
                    !.tradePrice = tp, !.price = pr] :
        sym \in {"AAPL", "TSLA"},
        bs \in {Attr("BUY"), Attr("SELL"), Absent},
        q \in {Attr(Dec_100), Attr(BadDecimalText), Absent},
        tp \in {Attr(Dec_185_50), Absent},
        pr \in {Attr(Dec_185_50), Absent}}

\* an empty child section of a statement
EmptySection(tag) == [tag |-> tag, attrs |-> NoAttrs, children |-> <<>>]

ScenarioDocs ==
    {[statements |-> <<[NewStatement(StatementA) EXCEPT
                           !.trades = <<[tag |-> "Trade", attrs |-> a]>>,
                           !.present = pres,
                           !.others = oth]>>] :
        a \in ScenarioTrades,
        pres \in {q \in SUBSET WrapperSectionTags : "Trades" \in q},
        oth \in {<<>>, <<EmptySection("CashTransactions")>>}}

InitScenario ==
    /\ doc \in ScenarioDocs
    /\ result = NoOutput
    /\ response = NoOutput
    /\ deriv = None
    /\ probe = NoProbe
    /\ code = NoCode
    /\ input = [decoder |-> "parse_activity_flex", attr |-> Absent, done |-> FALSE]
    /\ output = NoOutput
    /\ client = NoClient
    /\ threads = NoThreads

ParseScenario ==
    /\ input.decoder = "parse_activity_flex"
    /\ ~input.done
    /\ result' = parse_activity_flex(doc)
    /\ response' = FlexQueryResponse_deserialize(doc)
    /\ input' = [input EXCEPT !.done = TRUE]
    /\ UNCHANGED <<doc, deriv, probe, code, output, client, threads>>

NextScenario == ParseScenario

SpecScenario == InitScenario /\ [][NextScenario]_vars

ScenarioTradeAttrs == doc.statements[1].trades[1].attrs

\* the Trade of the scenario, but for its price
ScenarioTradeGiven ==
    /\ input.done
    /\ ScenarioTradeAttrs.symbol = Attr("AAPL")
    /\ ScenarioTradeAttrs.buySell = Attr("BUY")
    /\ ScenarioTradeAttrs.quantity = Attr(Dec_100)

\* the decoded statement of the scenario: one trade with the given values
\* and no record anywhere else
ScenarioDecoded ==
    /\ result.ok
    /\ Len(V(result).trades.items) = 1
    /\ V(result).trades.items[1].symbol = "AAPL"
    /\ V(result).trades.items[1].buy_sell = Some("Buy")
    /\ IsSome(V(result).trades.items[1].quantity)
    /\ Decimal_to_string(Unwrap(V(result).trades.items[1].quantity)) = Dec_100
    /\ IsSome(V(result).trades.items[1].trade_price)
    /\ Decimal_to_string(Unwrap(V(result).trades.items[1].trade_price)) = Dec_185_50
    /\ V(result).positions.items = <<>>
    /\ V(result).cash_transactions.items = <<>>
    /\ V(result).corporate_actions.items = <<>>

----------------------------------------------------------------------------
(* Sections left out or empty: a one-statement Activity document, or a     *)
(* TradeConfirmationStatement, whose sections are each absent, empty or    *)
(* filled, parsed once (SpecSections).                                      *)

CashTransactionA ==
    [NoAttrs EXCEPT !.accountId = Attr("U1234567"), !.amount = Attr(Dec_100),
                    !.currency = Attr("USD"), !.reportDate = Attr(Iso_2025_01_31)]

AccountInformationA ==
    [NoAttrs EXCEPT !.accountId = Attr("U1234567"), !.currency = Attr("USD")]

\* the ways a section outside the three wrappers occurs in a statement
CashTransactionsShapes ==
    {<<>>, <<EmptySection("CashTransactions")>>,
     <<[tag |-> "CashTransactions", attrs |-> NoAttrs,
        children |-> <<[tag |-> "CashTransaction", attrs |-> CashTransactionA]>>]>>}

AccountInformationShapes ==
    {<<>>, <<EmptySection("AccountInformation")>>,
     <<[tag |-> "AccountInformation", attrs |-> AccountInformationA, children |-> <<>>]>>}

\* a statement element with each section absent, empty or filled
SectionStatements(a) ==
    {[NewStatement(a) EXCEPT !.present = pres, !.trades = ts, !.others = cash \o info] :
        pres \in SUBSET WrapperSectionTags,
        ts \in {<<>>, <<TradeElement("Trade", "none")>>},
        cash \in CashTransactionsShapes,
        info \in AccountInformationShapes}

\* the children of a section are there only when the section is
WellFormedStatement(st) ==
    /\ st.trades # <<>> => "Trades" \in st.present
    /\ st.positions # <<>> => "OpenPositions" \in st.present
    /\ st.corporate_actions # <<>> => "CorporateActions" \in st.present

InitSections ==
    /\ \/ /\ input = [decoder |-> "parse_activity_flex", attr |-> Absent, done |-> FALSE]
          /\ \E st \in SectionStatements(StatementA) :
                /\ WellFormedStatement(st)
                /\ doc = [statements |-> <<st>>]
       \/ /\ input = [decoder |-> "parse_trade_confirmation", attr |-> Absent,
                      done |-> FALSE]
          /\ \E st \in SectionStatements(StatementA) \cup SectionStatements(StatementNoAccount) :
                /\ WellFormedStatement(st)
                /\ st.others = <<>>
                /\ st.present \subseteq {"Trades"}
                /\ doc = [statements |-> <<st>>]
    /\ result = NoOutput
    /\ response = NoOutput
    /\ deriv = None
    /\ probe = NoProbe
    /\ code = NoCode
    /\ output = NoOutput
    /\ client = NoClient
    /\ threads = NoThreads

\* the document decoded by the parser of its kind; a trade confirmation
\* document is its one TradeConfirmationStatement element
ParseAs(kind, d) ==
    IF kind = "parse_activity_flex" THEN parse_activity_flex(d)
    ELSE parse_trade_confirmation(d.statements[1])

ParseActivity ==
    /\ input.decoder = "parse_activity_flex"
    /\ ~input.done
    /\ result' = parse_activity_flex(doc)
    /\ input' = [input EXCEPT !.done = TRUE]
    /\ UNCHANGED <<doc, response, deriv, probe, code, output, client, threads>>

ParseTradeConfirmation ==
    /\ input.decoder = "parse_trade_confirmation"
    /\ ~input.done
    /\ result' = parse_trade_confirmation(doc.statements[1])
    /\ input' = [input EXCEPT !.done = TRUE]
    /\ UNCHANGED <<doc, response, deriv, probe, code, output, client, threads>>

NextSections == ParseActivity \/ ParseTradeConfirmation

SpecSections == InitSections /\ [][NextSections]_vars

\* the sections of the parsed document's kind
SectionsOf(kind) ==
    IF kind = "parse_activity_flex" THEN ModeledSectionTags ELSE {"Trades"}

\* the section is absent from the statement, or present without content
SectionAbsent(st, tag) ==
    IF tag \in WrapperSectionTags THEN tag \notin st.present ELSE ~HasChild(st, tag)

SectionEmpty(st, tag) ==
    IF tag \in WrapperSectionTags
    THEN /\ tag \in st.present
         /\ tag = "Trades" => st.trades = <<>>
         /\ tag = "OpenPositions" => st.positions = <<>>
         /\ tag = "CorporateActions" => st.corporate_actions = <<>>
    ELSE HasChild(st, tag) /\ ChildOf(st, tag) = EmptySection(tag)

\* the statement with the empty section left out, or the absent one put
\* in empty
Toggled(st, tag) ==
    IF tag \in WrapperSectionTags
    THEN [st EXCEPT !.present = IF tag \in @ THEN @ \ {tag} ELSE @ \cup {tag}]
    ELSE IF HasChild(st, tag)
         THEN [st EXCEPT !.others = SelectSeq(@, LAMBDA e : e.tag # tag)]
         ELSE [st EXCEPT !.others = Append(@, EmptySection(tag))]

\* C16: whichever section of the parsed statement is absent or empty, the
\* document with that section the other way (absent for empty, empty for
\* absent) decodes to the same result.
C16_AbsentSectionIsEmptySection ==
    input.done =>
        \A tag \in SectionsOf(input.decoder) :
            (SectionAbsent(doc.statements[1], tag) \/ SectionEmpty(doc.statements[1], tag))
                => result = ParseAs(input.decoder,
                                    [statements |-> <<Toggled(doc.statements[1], tag)>>])

----------------------------------------------------------------------------
(* Sections the statement has no decoded field for: a document of one or   *)
(* two statements, the first carrying at most one section that is on the   *)
(* ignore list or not known at all, with any content, before or after its  *)
(* CashTransactions section (SpecIgnored).                                  *)

UnmodeledTags == {"DepositsOnHold", "FxPositions", "UnbookedTrades", "SomethingNew"}

\* what an unmodeled section may hold: nothing, attributes, child elements
\* that no record decoder would accept
UnmodeledContents ==
    {[attrs |-> NoAttrs, children |-> <<>>],
     [attrs |-> [NoAttrs EXCEPT !.reportDate = Attr(BadDateText)], children |-> <<>>],
     [attrs |-> NoAttrs,
      children |-> <<[tag |-> "Trade", attrs |-> [NoAttrs EXCEPT !.quantity =
                                                      Attr(BadDecimalText)]]>>]}

UnmodeledSections ==
    {[tag |-> t, attrs |-> c.attrs, children |-> c.children] :
        t \in UnmodeledTags, c \in UnmodeledContents}

CashTransactionsFilled ==
    [tag |-> "CashTransactions", attrs |-> NoAttrs,
     children |-> <<[tag |-> "CashTransaction", attrs |-> CashTransactionA]>>]

\* the other children of a statement: its CashTransactions section or
\* none, and at most one unmodeled section before or after it
OthersWithUnmodeled ==
    {<<>>, <<CashTransactionsFilled>>}
        \cup {<<u>> : u \in UnmodeledSections}
        \cup {<<u, CashTransactionsFilled>> : u \in UnmodeledSections}
        \cup {<<CashTransactionsFilled, u>> : u \in UnmodeledSections}

FirstStatements ==
    {[NewStatement(a) EXCEPT !.trades = ts, !.others = oth] :
        a \in {StatementA, StatementBadDate},
        ts \in {<<>>, <<TradeElement("Trade", "none")>>},
        oth \in OthersWithUnmodeled}

LaterStatements ==
    {<<>>} \cup
    {<<[NewStatement(a) EXCEPT !.trades = ts]>> :
        a \in {StatementB, StatementNoAccount},
        ts \in {<<>>, <<TradeElement("Trade", "none")>>}}

InitIgnored ==
    /\ \E st \in FirstStatements, later \in LaterStatements :
          doc = [statements |-> <<st>> \o later]
    /\ result = NoOutput
    /\ response = NoOutput
    /\ deriv = None
    /\ probe = NoProbe
    /\ code = NoCode
    /\ input = [decoder |-> "parse_activity_flex", attr |-> Absent, done |-> FALSE]
    /\ output = NoOutput
    /\ client = NoClient
    /\ threads = NoThreads

ParseWithUnmodeled ==
    /\ input.decoder = "parse_activity_flex"
    /\ ~input.done
    /\ result' = parse_activity_flex(doc)
    /\ response' = FlexQueryResponse_deserialize(doc)
    /\ input' = [input EXCEPT !.done = TRUE]
    /\ UNCHANGED <<doc, deriv, probe, code, output, client, threads>>

NextIgnored == ParseWithUnmodeled

SpecIgnored == InitIgnored /\ [][NextIgnored]_vars

\* the document without the sections its statements have no field for
WithoutUnmodeled(d) ==
    [statements |->
        [i \in 1..Len(d.statements) |->
            [d.statements[i] EXCEPT !.others =
                 SelectSeq(@, LAMBDA e : e.tag \in ModeledSectionTags)]]]

----------------------------------------------------------------------------
(* detect_statement_type of version.rs.  The document is its text, a       *)
(* string (SpecDetect).                                                     *)

Whitespace == {" ", "\n", "\t", "\r"}

\* str::starts_with
starts_with(s, prefix) ==
    Len(s) >= Len(prefix) /\ SubSeq(s, 1, Len(prefix)) = prefix

\* str::trim_start
RECURSIVE trim_start(_)
trim_start(s) ==
    IF Len(s) > 0 /\ SubSeq(s, 1, 1) \in Whitespace
    THEN trim_start(SubSeq(s, 2, Len(s)))
    ELSE s

\* str::trim_start_matches(prefix): the prefix removed as often as it leads
RECURSIVE trim_start_matches(_, _)
trim_start_matches(s, prefix) ==
    IF starts_with(s, prefix)
    THEN trim_start_matches(SubSeq(s, Len(prefix) + 1, Len(s)), prefix)
    ELSE s

\* str::trim_start_matches(|c: char| c != '<')
RECURSIVE trim_start_to_tag(_)
trim_start_to_tag(s) ==
    IF Len(s) > 0 /\ SubSeq(s, 1, 1) # "<"
    THEN trim_start_to_tag(SubSeq(s, 2, Len(s)))
    ELSE s

\* the chain of starts_with tests on the trimmed text
CheckRootElement(xml_trimmed) ==
    IF starts_with(xml_trimmed, "<FlexQueryResponse") THEN Ok("Activity")
    ELSE IF starts_with(xml_trimmed, "<TradeConfirmationStatement")
         THEN Ok("TradeConfirmation")
    ELSE IF starts_with(xml_trimmed, "<FlexStatement") THEN Ok("Activity")
    ELSE Err

detect_statement_type(xml) ==
    CheckRootElement(
        trim_start_to_tag(trim_start(trim_start_matches(trim_start(xml), "<?xml"))))

\* what may stand before the root element
LeadingTexts == {"", " ", "\n  "}

Prologs ==
    {[kind |-> "none", text |-> ""],
     [kind |-> "declaration", text |-> "<?xml version=\"1.0\" encoding=\"UTF-8\"?>"],
     [kind |-> "declaration", text |-> "<?xml version=\"1.0\"?>\n"],
     [kind |-> "comment", text |-> "<!-- statement -->\n"]}

RootNames ==
    {"FlexQueryResponse", "TradeConfirmationStatement", "FlexStatement",
     "FlexStatements", "FlexQueryResponses", "TradeConfirmation", "FlexQuery", "Invalid"}

\* the rest of the root's start tag
RootTails == {">", "/>", " accountId=\"U123\">"}

InitDetect ==
    /\ \E lead \in LeadingTexts, prolog \in Prologs, root \in RootNames, tail \in RootTails :
          input = [decoder |-> "detect_statement_type",
                   attr |-> Attr(lead \o prolog.text \o "<" \o root \o tail),
                   done |-> FALSE, prolog |-> prolog.kind, root |-> root]
    /\ output = NoOutput
    /\ NothingParsed
    /\ client = NoClient
    /\ threads = NoThreads

DetectStatementType ==
    /\ input.decoder = "detect_statement_type"
    /\ ~input.done
    /\ output' = detect_statement_type(input.attr[1])
    /\ input' = [input EXCEPT !.done = TRUE]
    /\ UNCHANGED <<doc, result, response, deriv, probe, code, client, threads>>

NextDetect == DetectStatementType

SpecDetect == InitDetect /\ [][NextDetect]_vars

\* the classification by the name of the root element
TypeOfRoot(root) ==
    CASE root \in {"FlexQueryResponse", "FlexStatement"} -> Ok("Activity")
      [] root = "TradeConfirmationStatement" -> Ok("TradeConfirmation")
      [] OTHER -> Err

\* C18: for a document that starts with its root element, or with an XML
\* declaration and then its root element, detect_statement_type gives
\* Activity for a root named FlexQueryResponse or FlexStatement,
\* TradeConfirmation for a root named TradeConfirmationStatement, and an
\* error for a root of any other name.
C18_ClassifiedByRootName ==
    (input.done /\ input.prolog \in {"none", "declaration"})
        => output = TypeOfRoot(input.root)

----------------------------------------------------------------------------
(* FlexApiClient::get_statement_with_retry of api/client.rs.  client is    *)
(* the running call: pc its position ("call" at get_statement(..).await,   *)
(* "sleep" at tokio::time::sleep(..).await, "done" once it has returned),  *)
(* attempt the loop variable, calls, sleeps and not_ready the numbers of   *)
(* get_statement calls made, of sleeps taken and of calls that reported    *)
(* StatementNotReady, outcome what it returned (SpecRetry).                 *)

MaxRetries == 5

\* the variants of FlexApiError other than StatementNotReady
HardFailures == {"RequestFailed", "ApiError", "XmlError", "InvalidResponse"}

\* if attempt <= max_retries: one retry too many
ShouldRetry_inclusive(attempt, max_retries) == attempt <= max_retries

\* if attempt < max_retries
ShouldRetry(attempt, max_retries) == attempt < max_retries

\* for attempt in 0..max_retries: the last attempt left out
InRange_exclusive(attempt, max_retries) == attempt \in 0..(max_retries - 1)

\* 0..=max_retries
InRange(attempt, max_retries) == attempt \in 0..max_retries

\* for attempt in 0..=max_retries
InLoop == client.pc = "call" /\ InRange(client.attempt, client.max_retries)

InitRetry ==
    /\ \E m \in 0..MaxRetries :
          client = [pc |-> "call", max_retries |-> m, attempt |-> 0, calls |-> 0,
                    sleeps |-> 0, not_ready |-> 0, outcome |-> "none"]
    /\ input = NoInput
    /\ output = NoOutput
    /\ NothingParsed
    /\ threads = NoThreads

\* Ok(xml) => return Ok(xml)
GetStatementOk ==
    /\ InLoop
    /\ client' = [client EXCEPT !.calls = @ + 1, !.pc = "done", !.outcome = "Ok"]
    /\ UNCHANGED <<doc, result, response, deriv, probe, code, input, output, threads>>

\* Err(FlexApiError::StatementNotReady) => sleep and continue, or return it
GetStatementNotReady ==
    /\ InLoop
    /\ client' = IF ShouldRetry(client.attempt, client.max_retries)
                  THEN [client EXCEPT !.calls = @ + 1, !.not_ready = @ + 1,
                                      !.pc = "sleep"]
                  ELSE [client EXCEPT !.calls = @ + 1, !.not_ready = @ + 1,
                                      !.pc = "done", !.outcome = "StatementNotReady"]
    /\ UNCHANGED <<doc, result, response, deriv, probe, code, input, output, threads>>

\* every error retried like StatementNotReady while attempts remain
GetStatementFails_retried ==
    /\ InLoop
    /\ \E e \in HardFailures :
          client' = IF ShouldRetry(client.attempt, client.max_retries)
                    THEN [client EXCEPT !.calls = @ + 1, !.pc = "sleep"]
                    ELSE [client EXCEPT !.calls = @ + 1, !.pc = "done", !.outcome = e]
    /\ UNCHANGED <<doc, result, response, deriv, probe, code, input, output, threads>>

\* Err(e) => return Err(e)
GetStatementFails ==
    /\ InLoop
    /\ \E e \in HardFailures :
          client' = [client EXCEPT !.calls = @ + 1, !.pc = "done", !.outcome = e]
    /\ UNCHANGED <<doc, result, response, deriv, probe, code, input, output, threads>>

\* tokio::time::sleep(retry_delay).await; continue: the next iteration, or
\* the unreachable!() after the loop when the range is used up
SleepRetryDelay ==
    /\ client.pc = "sleep"
    /\ client' = [client EXCEPT
                     !.sleeps = @ + 1, !.attempt = @ + 1,
                     !.pc = IF InRange(client.attempt + 1, client.max_retries)
                            THEN "call" ELSE "unreachable"]
    /\ UNCHANGED <<doc, result, response, deriv, probe, code, input, output, threads>>

NextRetry ==
    \/ GetStatementOk
    \/ GetStatementNotReady
    \/ GetStatementFails
    \/ SleepRetryDelay

\* every get_statement call returns (the HTTP client has a timeout) and
\* every sleep ends
SpecRetry == InitRetry /\ [][NextRetry]_vars /\ WF_vars(NextRetry)

\* the counts of the running call at every moment
RetryBounded ==
    /\ client.calls <= client.max_retries + 1
    /\ client.sleeps <= client.max_retries
    /\ client.pc = "call" => client.sleeps = client.calls
    /\ client.pc \in {"sleep", "done"} => client.sleeps = client.calls - 1
    /\ (client.pc = "done" /\ client.not_ready = client.calls)
           => /\ client.outcome = "StatementNotReady"
              /\ client.outcome \notin HardFailures
              /\ client.calls = client.max_retries + 1
              /\ client.sleeps = client.max_retries

\* C19: get_statement_with_retry always returns, after at most
\* max_retries + 1 calls of get_statement and with a sleep only between
\* two consecutive calls; when every call reported not-ready it returns
\* StatementNotReady, which is none of the hard failures, after exactly
\* max_retries + 1 calls and max_retries sleeps.
C19_RetryTerminatesBounded == []RetryBounded /\ <>(client.pc = "done")

C19_Witness ==
    /\ client.pc = "done"
    /\ client.max_retries = 3
    /\ client.outcome = "StatementNotReady"
    /\ client.calls = 4
    /\ client.sleeps = 3
    /\ client.not_ready = 4

\* a further attempt or a sleep only while every result so far was
\* StatementNotReady; a result of any other kind is the last one
OnlyNotReadyRetried ==
    /\ client.pc \in {"call", "sleep"} => client.not_ready = client.calls
    /\ client.sleeps <= client.not_ready
    /\ (client.pc = "done" /\ client.outcome \in HardFailures \cup {"Ok"})
           => /\ client.calls = client.not_ready + 1
              /\ client.sleeps = client.not_ready

\* C23: the first Ok of get_statement and the first error other than
\* StatementNotReady end get_statement_with_retry at the attempt where they
\* occur, with no sleep and no attempt after them; an attempt is repeated
\* only after StatementNotReady, and nothing happens after the return.
C23_ReturnsAtFirstResult ==
    /\ []OnlyNotReadyRetried
    /\ [][client.pc = "done" => client' = client]_vars

C23_Witness ==
    /\ client.pc = "done"
    /\ client.outcome = "ApiError"
    /\ client.max_retries = 5
    /\ client.calls = 3
    /\ client.not_ready = 2
    /\ client.sleeps = 2

\* the loop body is entered before anything else, a return has made a
\* call, and the statement after the loop is not reached
LoopAlwaysReturns ==
    /\ client.calls = 0 => InLoop
    /\ client.pc = "done" => client.calls >= 1
    /\ client.pc # "unreachable"

\* C24: for every max_retries, 0 included, get_statement_with_retry makes
\* at least one get_statement attempt, never reaches the unreachable!()
\* after the loop, and returns (from inside the loop).
C24_AtLeastOneAttempt == []LoopAlwaysReturns /\ <>(client.pc = "done")

C24_Witness ==
    /\ client.pc = "done"
    /\ client.max_retries = 0
    /\ client.calls = 1
    /\ client.sleeps = 0
    /\ client.outcome = "StatementNotReady"



----------------------------------------------------------------------------
(* Decimal texts decoded and written back: every text of up to             *)
(* MaxDecimalLen characters over DecimalChars, and the long texts of the   *)
(* precision test (SpecDecimal).                                            *)

MaxDecimalLen == 4

DecimalChars == {"0", "5", "7", ".", "-"}

Dec_123456789_987654321 ==
    <<"1", "2", "3", "4", "5", "6", "7", "8", "9", ".",
      "9", "8", "7", "6", "5", "4", "3", "2", "1">>

Dec_0_00000001 == <<"0", ".", "0", "0", "0", "0", "0", "0", "0", "1">>

Dec_m0_000001 == <<"-", "0", ".", "0", "0", "0", "0", "0", "1">>

Dec_m15000_00 == <<"-", "1", "5", "0", "0", "0", ".", "0", "0">>

Dec_999999999999999999 == [i \in 1..18 |-> "9"]

PrecisionTexts ==
    {Dec_123456789_987654321, Dec_0_00000001, Dec_m0_000001, Dec_m15000_00,
     Dec_999999999999999999, Dec_100, Dec_185_50}

InitDecimal ==
    /\ \E t \in TextsUpTo(DecimalChars, MaxDecimalLen) \cup PrecisionTexts :
          input = [decoder |-> "deserialize_optional_decimal", attr |-> Attr(t),
                   done |-> FALSE]
    /\ output = NoOutput
    /\ NothingParsed
    /\ client = NoClient
    /\ threads = NoThreads

DecodeDecimal ==
    /\ input.decoder = "deserialize_optional_decimal"
    /\ ~input.done
    /\ output' = deserialize_optional_decimal(input.attr)
    /\ input' = [input EXCEPT !.done = TRUE]
    /\ UNCHANGED <<doc, result, response, deriv, probe, code, client, threads>>

NextDecimal == DecodeDecimal

SpecDecimal == InitDecimal /\ [][NextDecimal]_vars

DecimalText == input.attr[1]

\* the text without its sign
Unsigned(s) == IF IsNegative(s) THEN Tail(s) ELSE s

\* the position of the first '.' of the text, one past its end if none
PointAt(s) ==
    IF \E i \in 1..Len(s) : s[i] = "."
    THEN CHOOSE i \in 1..Len(s) : s[i] = "." /\ \A j \in 1..(i - 1) : s[j] # "."
    ELSE Len(s) + 1

IntegerPart(s) == SubSeq(Unsigned(s), 1, PointAt(Unsigned(s)) - 1)

FractionPart(s) == SubSeq(Unsigned(s), PointAt(Unsigned(s)) + 1, Len(Unsigned(s)))

AllDigits(s) == \A i \in 1..Len(s) : s[i] \in Digits

AllZeros(s) == \A i \in 1..Len(s) : s[i] = "0"

\* a decimal string: an optional '-', digits, and optionally a '.' with
\* digits after it
IsDecimalString(s) ==
    /\ IntegerPart(s) # <<>> /\ AllDigits(IntegerPart(s))
    /\ AllDigits(FractionPart(s))
    /\ PointAt(Unsigned(s)) <= Len(Unsigned(s)) => FractionPart(s) # <<>>

\* the digits of the text from its first non-zero digit on
SignificantDigits(s) ==
    Len(StripLeadingZeros(IntegerPart(s) \o FractionPart(s)))

\* a decimal string as Decimal writes one: no zero in front of the integer
\* part, no sign on a zero
IsCanonicalDecimal(s) ==
    /\ IsDecimalString(s)
    /\ Len(IntegerPart(s)) = 1 \/ Head(IntegerPart(s)) # "0"
    /\ IsNegative(s) => ~AllZeros(IntegerPart(s) \o FractionPart(s))

RoundTrips ==
    /\ output.ok
    /\ IsSome(V(output))
    /\ Decimal_to_string(Unwrap(V(output))) = DecimalText

----------------------------------------------------------------------------
(* Calls of parse_activity_flex on several threads.  threads[t] is the     *)
(* call of thread t: xml the text it was given, response and statement its *)
(* two local variables, pc its position ("start", "decoded" after          *)
(* quick_xml::de::from_str, "returned").  A step of one thread is          *)
(* interleaved with the steps of the others (SpecThreads).                 *)

NumThreads == 2

ThreadIds == 1..NumThreads

\* the texts handed to the threads: no statement, one, two, and one whose
\* second statement does not decode
ThreadDocs ==
    {EmptyDoc,
     DocWithTrade(TradeA),
     [statements |-> <<NewStatement(StatementB), NewStatement(StatementA)>>],
     [statements |-> <<NewStatement(StatementA), NewStatement(StatementBadDate)>>]}

\* every call reading the response local of thread 1: one shared slot
LocalResponse_shared(ts, t) == ts[1].response

\* let response: FlexQueryResponse = ..: a local of the call
LocalResponse(ts, t) == ts[t].response

InitThreads ==
    /\ threads \in [ThreadIds -> {[pc |-> "start", xml |-> d, response |-> Err,
                                    statement |-> Err] : d \in ThreadDocs}]
    /\ input = NoInput
    /\ output = NoOutput
    /\ NothingParsed
    /\ client = NoClient

\* quick_xml::de::from_str(xml).map_err(..)
ThreadDecode(t) ==
    /\ threads[t].pc = "start"
    /\ threads' = [threads EXCEPT
                      ![t].pc = "decoded",
                      ![t].response = FlexQueryResponse_deserialize(threads[t].xml)]
    /\ UNCHANGED <<doc, result, response, deriv, probe, code, input, output, client>>

\* response.statements.statements.into_iter().next().ok_or_else(..)
ThreadReturn(t) ==
    /\ threads[t].pc = "decoded"
    /\ threads' = [threads EXCEPT ![t].pc = "returned",
                                  ![t].statement = FirstStatement(LocalResponse(threads, t))]
    /\ UNCHANGED <<doc, result, response, deriv, probe, code, input, output, client>>

NextThreads ==
    \E t \in ThreadIds : ThreadDecode(t) \/ ThreadReturn(t)

SpecThreads == InitThreads /\ [][NextThreads]_vars

----------------------------------------------------------------------------
(* detect_version of version.rs, on the text of the document (SpecVersion) *)

\* str::find(pattern) from position `from` on: the first position where
\* the pattern starts, 0 when there is none
FirstOf(positions) ==
    IF positions = {} THEN 0
    ELSE CHOOSE i \in positions : \A j \in positions : i <= j

find_from(s, pattern, from) ==
    FirstOf({ i \in from..(Len(s) - Len(pattern) + 1) :
                SubSeq(s, i, i + Len(pattern) - 1) = pattern })

\* match version_str { "3" => V3, _ => Unknown }
MatchVersion(version_str) == IF version_str = "3" THEN Ok("V3") ELSE Ok("Unknown")

\* the text between version_start and the next '"', V3 when there is none
VersionUpTo(xml, version_start, version_end) ==
    IF version_end = 0 THEN Ok("V3")
    ELSE MatchVersion(SubSeq(xml, version_start, version_end - 1))

\* if let Some(pos) = xml.find("version=\""): pos is where it was found
VersionAt(xml, pos) ==
    IF pos = 0 THEN Ok("V3")
    ELSE VersionUpTo(xml, pos + Len("version=\""),
                     find_from(xml, "\"", pos + Len("version=\"")))

detect_version(xml) == VersionAt(xml, find_from(xml, "version=\"", 1))

\* the XML declaration in front of the root element, or nothing
Declarations == {"", "<?xml version=\"1.0\" encoding=\"UTF-8\"?>\n", "<?xml version=\"1.0\"?>"}

\* the version attribute of the root element: omitted or with a text
VersionAttrs == {Absent, Attr("3"), Attr("4"), Attr(""), Attr("3.0")}

WriteAttr(name, a) == IF a = Absent THEN "" ELSE " " \o name \o "=\"" \o a[1] \o "\""

InitVersion ==
    /\ \E decl \in Declarations, root \in {"FlexQueryResponse", "FlexStatement"},
          before \in {"", " queryName=\"test\""}, v \in VersionAttrs,
          after \in {">", " type=\"AF\">"} :
          input = [decoder |-> "detect_version",
                   attr |-> Attr(decl \o "<" \o root \o before \o WriteAttr("version", v)
                                     \o after),
                   done |-> FALSE, declared |-> decl # "", version |-> v]
    /\ output = NoOutput
    /\ NothingParsed
    /\ client = NoClient
    /\ threads = NoThreads

DetectVersion ==
    /\ input.decoder = "detect_version"
    /\ ~input.done
    /\ output' = detect_version(input.attr[1])
    /\ input' = [input EXCEPT !.done = TRUE]
    /\ UNCHANGED <<doc, result, response, deriv, probe, code, client, threads>>

NextVersion == DetectVersion

SpecVersion == InitVersion /\ [][NextVersion]_vars

\* the version named by the version attribute of the root element
VersionOfRoot(v) ==
    IF v = Absent \/ v = Attr("3") THEN Ok("V3") ELSE Ok("Unknown")

\* C22: detect_version gives V3 when the version attribute of the root
\* element is "3" or is not there, and Unknown when it holds anything
\* else, whether or not the document starts with an XML declaration.
C22_VersionOfRootElement ==
    input.done => output = VersionOfRoot(input.version)

----------------------------------------------------------------------------
(* The response parsers of api/client.rs, on the text of the response body *)
(* (SpecApi).  An error is [ok |-> FALSE, error, message].                  *)

ApiErr(kind, message) == [ok |-> FALSE, val |-> <<>>, error |-> kind, message |-> message]

\* str::contains
contains(s, pattern) == find_from(s, pattern, 1) # 0

\* &xml[start + len(open)..start + end], end being where xml[start..] has
\* `close`; `closeAt` is that place in xml, 0 when there is none
SliceTo(xml, from, closeAt) ==
    IF closeAt = 0 THEN None ELSE Some(SubSeq(xml, from, closeAt - 1))

\* the text of the first `open` element when a `close` follows it
ElementFrom(xml, open, close, start) ==
    IF start = 0 THEN None
    ELSE SliceTo(xml, start + Len(open), find_from(xml, close, start))

ElementText(xml, open, close) == ElementFrom(xml, open, close, find_from(xml, open, 1))

\* ApiError with the ErrorMessage text, "Unknown error" without one
ApiErrorOf(message) ==
    IF IsSome(message) THEN ApiErr("ApiError", Unwrap(message))
    ELSE ApiErr("ApiError", "Unknown error")

IsErrorStatus(xml) ==
    contains(xml, "<Status>Fail</Status>") \/ contains(xml, "<Status>Warn</Status>")

\* parse_get_statement_response testing the status before the error code
parse_get_statement_response_status_first(xml) ==
    IF IsErrorStatus(xml)
    THEN ApiErrorOf(ElementText(xml, "<ErrorMessage>", "</ErrorMessage>"))
    ELSE IF contains(xml, "<ErrorCode>1019</ErrorCode>")
         THEN ApiErr("StatementNotReady", "")
    ELSE ApiErr("InvalidResponse", "Unexpected response format")

parse_get_statement_response(xml) ==
    IF contains(xml, "<ErrorCode>1019</ErrorCode>") THEN ApiErr("StatementNotReady", "")
    ELSE IF IsErrorStatus(xml)
         THEN ApiErrorOf(ElementText(xml, "<ErrorMessage>", "</ErrorMessage>"))
    ELSE ApiErr("InvalidResponse", "Unexpected response format")

\* get_statement once the body has arrived
get_statement(body) ==
    IF contains(body, "<Status>") THEN parse_get_statement_response(body) ELSE Ok(body)

\* the status and the reference code of a SendRequest response
SendRequestOutcome(xml, ref_code) ==
    IF IsSome(ref_code) THEN Ok(Unwrap(ref_code))
    ELSE IF IsErrorStatus(xml)
         THEN ApiErrorOf(ElementText(xml, "<ErrorMessage>", "</ErrorMessage>"))
    ELSE ApiErr("InvalidResponse", "Could not parse reference code")

\* parse_send_request_response testing the status before the reference code
parse_send_request_response_status_first(xml) ==
    IF IsErrorStatus(xml)
    THEN ApiErrorOf(ElementText(xml, "<ErrorMessage>", "</ErrorMessage>"))
    ELSE SendRequestOutcome(xml, ElementText(xml, "<ReferenceCode>", "</ReferenceCode>"))

parse_send_request_response(xml) ==
    SendRequestOutcome(xml, ElementText(xml, "<ReferenceCode>", "</ReferenceCode>"))

\* the children a response body may hold: each is [kind, text]
StatusElements ==
    {[kind |-> "none", text |-> ""],
     [kind |-> "Success", text |-> "<Status>Success</Status>"],
     [kind |-> "Warn", text |-> "<Status>Warn</Status>"],
     [kind |-> "Fail", text |-> "<Status>Fail</Status>"],
     [kind |-> "Pending", text |-> "<Status>Pending</Status>"]}

ReferenceCodeElements ==
    {[kind |-> None, text |-> ""],
     [kind |-> Some("1234567890"), text |-> "<ReferenceCode>1234567890</ReferenceCode>"],
     [kind |-> Some(""), text |-> "<ReferenceCode></ReferenceCode>"],
     [kind |-> None, text |-> "<ReferenceCode>12"]}

ErrorCodeElements ==
    {[kind |-> "none", text |-> ""],
     [kind |-> "1019", text |-> "<ErrorCode>1019</ErrorCode>"],
     [kind |-> "1003", text |-> "<ErrorCode>1003</ErrorCode>"]}

ErrorMessageElements ==
    {[kind |-> None, text |-> ""],
     [kind |-> Some("Invalid token"), text |-> "<ErrorMessage>Invalid token</ErrorMessage>"],
     [kind |-> None, text |-> "<ErrorMessage>cut"]}

InitApi ==
    /\ \E dec \in {"get_statement", "parse_send_request_response"},
          root \in {"FlexStatementResponse", "FlexQueryResponse"},
          st \in StatusElements, rc \in ReferenceCodeElements,
          ec \in ErrorCodeElements, em \in ErrorMessageElements :
          input = [decoder |-> dec,
                   attr |-> Attr("<" \o root \o ">\n" \o st.text \o rc.text \o ec.text
                                     \o em.text \o "</" \o root \o ">"),
                   done |-> FALSE, status |-> st.kind, reference_code |-> rc.kind,
                   error_code |-> ec.kind, error_message |-> em.kind]
    /\ output = NoOutput
    /\ NothingParsed
    /\ client = NoClient
    /\ threads = NoThreads

GetStatement ==
    /\ input.decoder = "get_statement"
    /\ ~input.done
    /\ output' = get_statement(input.attr[1])
    /\ input' = [input EXCEPT !.done = TRUE]
    /\ UNCHANGED <<doc, result, response, deriv, probe, code, client, threads>>

ParseSendRequestResponse ==
    /\ input.decoder = "parse_send_request_response"
    /\ ~input.done
    /\ output' = parse_send_request_response(input.attr[1])
    /\ input' = [input EXCEPT !.done = TRUE]
    /\ UNCHANGED <<doc, result, response, deriv, probe, code, client, threads>>

NextApi == GetStatement \/ ParseSendRequestResponse

SpecApi == InitApi /\ [][NextApi]_vars

\* the ApiError of a Fail or Warn response: its complete ErrorMessage, or
\* 'Unknown error'
ExpectedApiError ==
    IF IsSome(input.error_message)
    THEN ApiErr("ApiError", Unwrap(input.error_message))
    ELSE ApiErr("ApiError", "Unknown error")

\* C25: get_statement returns a body without '<Status>' unchanged; of a
\* status response, error code 1019 gives StatementNotReady whatever the
\* Status, otherwise Status Fail or Warn gives ApiError with the
\* ErrorMessage text ('Unknown error' without one), and any other status
\* response gives InvalidResponse.
C25_GetStatementClassifies ==
    (input.done /\ input.decoder = "get_statement") =>
        output = CASE input.status = "none" -> Ok(input.attr[1])
                   [] input.status # "none" /\ input.error_code = "1019" ->
                         ApiErr("StatementNotReady", "")
                   [] input.status \in {"Fail", "Warn"} /\ input.error_code # "1019" ->
                         ExpectedApiError
                   [] OTHER -> ApiErr("InvalidResponse", "Unexpected response format")

C25_Witness ==
    /\ input.done
    /\ input.decoder = "get_statement"
    /\ input.status = "Fail"
    /\ input.error_code = "1019"
    /\ input.error_message = Some("Invalid token")
    /\ output = ApiErr("StatementNotReady", "")

\* C26: parse_send_request_response returns the reference code whenever
\* the response holds a complete ReferenceCode element, whatever the
\* Status; otherwise Status Fail or Warn gives ApiError with the
\* ErrorMessage text ('Unknown error' without one), and every other
\* response gives InvalidResponse.
C26_SendRequestClassifies ==
    (input.done /\ input.decoder = "parse_send_request_response") =>
        output = CASE IsSome(input.reference_code) -> Ok(Unwrap(input.reference_code))
                   [] IsNone(input.reference_code) /\ input.status \in {"Fail", "Warn"} ->
                         ExpectedApiError
                   [] OTHER -> ApiErr("InvalidResponse", "Could not parse reference code")

C26_Witness ==
    /\ input.done
    /\ input.decoder = "parse_send_request_response"
    /\ input.status = "Fail"
    /\ input.reference_code = Some("1234567890")
    /\ input.error_message = Some("Invalid token")
    /\ output = Ok("1234567890")

----------------------------------------------------------------------------
(* The root element (SpecRoot): a caller holds one document, given by its  *)
(* root element [tag, attrs, children] and the text before it, asks        *)
(* detect_statement_type for its type and parse_activity_flex for its      *)
(* statement.  A child is [tag, statements]: the FlexStatement elements of  *)
(* a FlexStatements child, none for a section.                              *)

\* the children of the root that the field `statements` of
\* FlexQueryResponse is read from
WrapperChildren(root) == SelectSeq(root.children, LAMBDA c : c.tag = "FlexStatements")

\* the field renamed "FlexStatements", without a default: no such child is
\* a missing field, two are a duplicate field
StatementsField(wrappers) ==
    IF Len(wrappers) # 1 THEN Err
    ELSE FlexQueryResponse_deserialize([statements |-> wrappers[1].statements])

\* from_str::<FlexQueryResponse> reading a root named FlexStatement as the
\* one statement of a response
FlexQueryResponse_from_str_bare_accepted(root) ==
    IF root.tag = "FlexStatement"
    THEN FlexQueryResponse_deserialize([statements |-> <<NewStatement(root.attrs)>>])
    ELSE StatementsField(WrapperChildren(root))

\* quick_xml::de::from_str::<FlexQueryResponse>(xml): the name of the root
\* is not looked at, its unknown attributes and children are skipped
FlexQueryResponse_from_str(root) == StatementsField(WrapperChildren(root))

\* parse_activity_flex on a document of any root
parse_activity_flex_xml(root) == FirstStatement(FlexQueryResponse_from_str(root))

WrappedRoots ==
    { [tag |-> "FlexQueryResponse", attrs |-> NoAttrs,
       children |-> <<[tag |-> "FlexStatements", statements |-> sts]>>] :
         sts \in {<<>>} \cup { <<NewStatement(a)>> : a \in StatementSamples }
                 \cup { <<NewStatement(a), NewStatement(b)>> :
                            a \in StatementSamples, b \in StatementSamples } }

\* a root without a FlexStatements child: an empty response, and a
\* FlexStatement element standing as the root, with or without a section
UnwrappedRoots ==
    {[tag |-> "FlexQueryResponse", attrs |-> NoAttrs, children |-> <<>>]}
    \cup { [tag |-> "FlexStatement", attrs |-> a, children |-> cs] :
              a \in StatementSamples,
              cs \in {<<>>, <<[tag |-> "Trades", statements |-> <<>>]>>} }

\* the start tag of the root, as far as its accountId
StartTag(root) ==
    "<" \o root.tag
        \o (IF root.attrs.accountId = Absent THEN ""
            ELSE " accountId=\"" \o root.attrs.accountId[1] \o "\"")
        \o ">"

InitRoot ==
    /\ \E root \in WrappedRoots \cup UnwrappedRoots, prolog \in Prologs :
          input = [decoder |-> "parse_activity_flex", root |-> root,
                   attr |-> Attr(prolog.text \o StartTag(root)),
                   prolog |-> prolog.kind, detected |-> FALSE, done |-> FALSE]
    /\ output = NoOutput
    /\ NothingParsed
    /\ client = NoClient
    /\ threads = NoThreads

DetectRoot ==
    /\ input.decoder = "parse_activity_flex"
    /\ ~input.detected
    /\ output' = detect_statement_type(input.attr[1])
    /\ input' = [input EXCEPT !.detected = TRUE]
    /\ UNCHANGED <<doc, result, response, deriv, probe, code, client, threads>>

ParseRoot ==
    /\ input.decoder = "parse_activity_flex"
    /\ ~input.done
    /\ result' = parse_activity_flex_xml(input.root)
    /\ response' = FlexQueryResponse_from_str(input.root)
    /\ input' = [input EXCEPT !.done = TRUE]
    /\ UNCHANGED <<doc, deriv, probe, code, output, client, threads>>

NextRoot == DetectRoot \/ ParseRoot

SpecRoot == InitRoot /\ [][NextRoot]_vars

\* the root holds a FlexStatements wrapper with at least one FlexStatement
IsWrappedShape(root) ==
    \E k \in DOMAIN root.children :
        /\ root.children[k].tag = "FlexStatements"
        /\ root.children[k].statements # <<>>

\* C30: parse_activity_flex accepts only a root holding a FlexStatements
\* wrapper with at least one FlexStatement; a document whose root is a bare
\* FlexStatement, which detect_statement_type classifies as Activity when
\* the document starts with it or with an XML declaration, is rejected with
\* an error, not decoded as a statement.
C30_BareStatementRejected ==
    /\ (input.done /\ result.ok) => IsWrappedShape(input.root)
    /\ (input.done /\ input.root.tag = "FlexStatement") => ~result.ok /\ ~response.ok
    /\ (/\ input.detected
        /\ input.root.tag = "FlexStatement"
        /\ input.prolog \in {"none", "declaration"}) => output = Ok("Activity")

C30_Witness ==
    /\ input.done
    /\ input.detected
    /\ input.root.tag = "FlexStatement"
    /\ input.root.attrs = StatementA
    /\ Len(input.root.children) = 1
    /\ output = Ok("Activity")
    /\ ~result.ok
    /\ parse_activity_flex([statements |-> <<NewStatement(StatementA)>>]).ok

====
